---- MODULE Spec2Model ----
(***************************************************************************)
(* Cricket cost splitter: the ledger (previous balance, current-period     *)
(* aggregation, payment status), the cost splitter, the bulk toggle and    *)
(* the period advancer, as state machines over AppData.                    *)
(*                                                                         *)
(* Amounts are JavaScript numbers.  In the state machines every amount is  *)
(* an integer and every cost entered is a multiple of CostUnit, so that    *)
(* each division the handlers perform is exact and the double arithmetic   *)
(* of the code coincides with integer arithmetic.  The cost splitter on    *)
(* costs that do not divide evenly is modelled separately with IEEE-754    *)
(* binary64 rounding (SpecCalc).                                           *)
(*                                                                         *)
(* An optional value (Match | undefined, Payment | undefined) is a         *)
(* sequence of length 0 or 1.                                              *)
(***************************************************************************)
EXTENDS Integers, Sequences, FiniteSets, TLC

VARIABLES appData, last, steps, probe,
          localStorage, firebaseStorage, isOnlineMode, calls, saved, events

adapterVars == <<localStorage, firebaseStorage, isOnlineMode, calls, saved, events>>

appVars == <<appData, last, steps, probe>>

vars == <<appVars, adapterVars>>

(***************************************************************************)
(* Bounds of the model.                                                    *)
(***************************************************************************)
\* players 1..MaxSelect can be ticked in a match form
MaxSelect == 2
\* handleNextWeekend is explored until the list holds MaxWeekends weekends
MaxWeekends == 3
\* user operations explored in one run
MaxSteps == 4

\* storage.ts getSamplePlayers returns five players
NumSamplePlayers == 5

RECURSIVE Gcd(_, _)
Gcd(a, b) == IF b = 0 THEN a ELSE Gcd(b, a % b)

RECURSIVE LcmUpTo(_)
LcmUpTo(n) == IF n <= 1 THEN 1 ELSE LET l == LcmUpTo(n - 1) IN (l * n) \div Gcd(l, n)

\* every cost entered is a multiple of every possible participant count
CostUnit == 2 * LcmUpTo(MaxSelect)

\* <<groundCost, cafeteriaCost>> as typed into a match form
CostInputs == {<<0, 0>>, <<CostUnit, 0>>, <<CostUnit, CostUnit>>}
\* an amount typed into a payment cell: less than any share, more than any share
PaidInputs == {1, 2 * CostUnit + 1}
BalanceInputs == {0 - 1, 3}

(***************************************************************************)
(* Array helpers.                                                          *)
(***************************************************************************)
Range(s) == {s[i] : i \in DOMAIN s}

RECURSIVE SumSeq(_)
SumSeq(s) == IF s = <<>> THEN 0 ELSE Head(s) + SumSeq(Tail(s))

RECURSIVE FlatMap(_, _)
FlatMap(F(_), s) == IF s = <<>> THEN <<>> ELSE F(Head(s)) \o FlatMap(F, Tail(s))

Filter(s, T(_)) == SelectSeq(s, T)

Map(F(_), s) == [i \in DOMAIN s |-> F(s[i])]

\* Array.prototype.find: the first element that satisfies T, or undefined
Find(s, T(_)) ==
  LET hits == {i \in DOMAIN s : T(s[i])}
  IN IF hits = {} THEN <<>>
     ELSE <<s[CHOOSE i \in hits : \A j \in hits : i <= j]>>

Includes(s, x) == \E i \in DOMAIN s : s[i] = x

Max(a, b) == IF a >= b THEN a ELSE b
Min(a, b) == IF a <= b THEN a ELSE b
Abs(a) == IF a < 0 THEN 0 - a ELSE a

(***************************************************************************)
(* utils/calculations.ts                                                   *)
(***************************************************************************)
(***************************************************************************)
(* JavaScript numbers.  An integral value is a TLA+ integer.  A quotient   *)
(* that is not integral is the binary64 value nearest to it, written       *)
(* [m, e] for m * 2^e, where m is an odd natural of at most 53 bits given  *)
(* by its bits, least significant first.                                   *)
(***************************************************************************)
MantissaBits == 53

\* the number of bits of the natural n
BitLen(n) == IF n = 0 THEN 0 ELSE CHOOSE k \in 1..31 : 2^(k - 1) <= n /\ (k = 31 \/ n < 2^k)

BigFromInt(n) == [i \in 1..BitLen(n) |-> (n \div 2^(i - 1)) % 2]

BigBit(a, i) == IF i \in DOMAIN a THEN a[i] ELSE 0

\* the carry into bit i of a + b + c
BigCarry(a, b, c, i) ==
  \/ /\ c = 1
     /\ \A k \in 1..(i - 1) : BigBit(a, k) + BigBit(b, k) >= 1
  \/ \E j \in 1..(i - 1) :
       /\ BigBit(a, j) + BigBit(b, j) = 2
       /\ \A k \in (j + 1)..(i - 1) : BigBit(a, k) + BigBit(b, k) >= 1

BigAddC(a, b, c) ==
  LET len == Max(Len(a), Len(b))
      top == IF BigCarry(a, b, c, len + 1) THEN 1 ELSE 0
  IN [i \in 1..(len + top) |->
        (BigBit(a, i) + BigBit(b, i) + (IF BigCarry(a, b, c, i) THEN 1 ELSE 0)) % 2]

BigAdd(a, b) == BigAddC(a, b, 0)

BigShl(a, k) == IF Len(a) = 0 THEN <<>> ELSE [i \in 1..k |-> 0] \o a

RECURSIVE BigMulSmall(_, _)
BigMulSmall(a, n) == IF n = 0 THEN <<>> ELSE BigAdd(a, BigMulSmall(a, n - 1))

\* a <= b, for bit strings without leading zeros
BigLeq(a, b) ==
  \/ Len(a) < Len(b)
  \/ /\ Len(a) = Len(b)
     /\ \/ \A i \in DOMAIN a : a[i] = b[i]
        \/ \E i \in DOMAIN a :
             /\ a[i] < b[i]
             /\ \A j \in (i + 1)..Len(a) : a[j] = b[j]

\* m * 2^e with the trailing zero bits of m moved into e
Strip(m, e) ==
  IF \A i \in DOMAIN m : m[i] = 0 THEN [m |-> <<>>, e |-> 0]
  ELSE LET z == (CHOOSE i \in DOMAIN m : m[i] = 1 /\ \A j \in 1..(i - 1) : m[j] = 0) - 1
       IN [m |-> SubSeq(m, z + 1, Len(m)), e |-> e + z]

\* round to nearest, ties to even, at MantissaBits significant bits
RoundBinary64(m, e) ==
  IF Len(m) <= MantissaBits THEN Strip(m, e)
  ELSE LET k == Len(m) - MantissaBits
           kept == SubSeq(m, k + 1, Len(m))
           half == m[k] = 1
           sticky == \E i \in 1..(k - 1) : m[i] = 1
           up == half /\ (sticky \/ kept[1] = 1)
       IN Strip(IF up THEN BigAddC(kept, <<>>, 1) ELSE kept, e + k)

RECURSIVE Pow2Mod(_, _)
Pow2Mod(i, n) ==
  IF i = 0 THEN 1 % n
  ELSE IF i % 2 = 0 THEN LET h == Pow2Mod(i \div 2, n) IN (h * h) % n
  ELSE (2 * Pow2Mod(i - 1, n)) % n

\* a / n for naturals a, n with n > 0 that n does not divide, rounded to binary64:
\* long division until MantissaBits bits are significant, then the remainder decides
FDivInt(a, n) ==
  LET q0 == a \div n
      r0 == a % n
      rem(i) == (r0 * Pow2Mod(i, n)) % n
      fracBit(i) == (2 * rem(i - 1)) \div n
      first == CHOOSE i \in 1..31 : fracBit(i) = 1 /\ \A j \in 1..(i - 1) : fracBit(j) = 0
      nFrac == IF q0 = 0 THEN first + MantissaBits - 1 ELSE MantissaBits - BitLen(q0)
      q == [j \in 1..nFrac |-> fracBit(nFrac - j + 1)] \o BigFromInt(q0)
      m == SubSeq(q, 1, MantissaBits)
      r == rem(nFrac)
      up == 2 * r > n \/ (2 * r = n /\ m[1] = 1)
  IN Strip(IF up THEN BigAddC(m, <<>>, 1) ELSE m, 0 - nFrac)

FAdd(x, y) ==
  LET e0 == Min(x.e, y.e)
  IN RoundBinary64(BigAdd(BigShl(x.m, x.e - e0), BigShl(y.m, y.e - e0)), e0)

FromInt(n) == Strip(BigFromInt(n), 0)

\* what a / 0 evaluates to: no exception, a number that is not finite
Infinity == [m |-> <<1>>, e |-> 1024]
NaN == [m |-> <<>>, e |-> 1024]

\* the number division a / n of the code
Div(a, n) ==
  IF n = 0 THEN (IF a = 0 THEN NaN ELSE Infinity)
  ELSE IF a % n = 0 THEN a \div n
  ELSE FDivInt(a, n)

calculateMatchCostPerPlayer_groundOnly(match) ==
  IF Len(match.playerIds) = 0 THEN 0
  ELSE Div(match.groundCost, Len(match.playerIds))

calculateMatchCostPerPlayer(match) ==
  IF Len(match.playerIds) = 0 THEN 0
  ELSE LET totalCost == match.groundCost + match.cafeteriaCost
       IN Div(totalCost, Len(match.playerIds))

calculatePlayerDue(match, playerId) ==
  IF ~Includes(match.playerIds, playerId) THEN 0
  ELSE calculateMatchCostPerPlayer(match)

getPlayerPayment(match, playerId) ==
  LET T(p) == p.playerId = playerId IN Find(match.payments, T)

RECURSIVE BalanceLoop(_, _, _)
BalanceLoop(balance, player, allMatches) ==
  IF allMatches = <<>> THEN balance
  ELSE LET match == Head(allMatches)
           payment == getPlayerPayment(match, player.id)
           due == calculatePlayerDue(match, player.id)
           next == IF payment # <<>> THEN balance + (payment[1].amountPaid - due)
                   ELSE IF Includes(match.playerIds, player.id) THEN balance + due
                   ELSE balance
       IN BalanceLoop(next, player, Tail(allMatches))

calculatePlayerBalance(player, allMatches) ==
  BalanceLoop(player.balance, player, allMatches)

updatePaymentStatus_settles(payment) ==
  IF payment.amountPaid = 0 THEN [payment EXCEPT !.status = "pending"]
  ELSE IF payment.amountPaid >= payment.amountDue
    THEN [payment EXCEPT !.status = "paid", !.amountPaid = payment.amountDue]
  ELSE [payment EXCEPT !.status = "partial"]

updatePaymentStatus_strict(payment) ==
  IF payment.amountPaid = 0 THEN [payment EXCEPT !.status = "pending"]
  ELSE IF payment.amountPaid > payment.amountDue THEN [payment EXCEPT !.status = "paid"]
  ELSE [payment EXCEPT !.status = "partial"]

updatePaymentStatus(payment) ==
  IF payment.amountPaid = 0 THEN [payment EXCEPT !.status = "pending"]
  ELSE IF payment.amountPaid >= payment.amountDue THEN [payment EXCEPT !.status = "paid"]
  ELSE [payment EXCEPT !.status = "partial"]

\* id is what generateUUID() returns; matchId and date are left out
createPayment(id, playerId, amountDue) ==
  [id |-> id, playerId |-> playerId, amountDue |-> amountDue,
   amountPaid |-> 0, status |-> "pending"]

markAsPaid(payment) ==
  [payment EXCEPT !.amountPaid = payment.amountDue, !.status = "paid"]

markAsUnpaid(payment) ==
  [payment EXCEPT !.amountPaid = 0, !.status = "pending"]

setPartialPayment(payment, amount) ==
  LET updatedPayment == [payment EXCEPT !.amountPaid = amount]
  IN updatePaymentStatus(updatedPayment)

(***************************************************************************)
(* Shared by the dashboards: the current weekend and a weekend's matches.  *)
(***************************************************************************)
getCurrentWeekend(data) ==
  LET T(w) == w.id = data.currentWeekendId IN Find(data.weekends, T)

getWeekendMatches(weekend) ==
  weekend.saturdayMatch \o weekend.sundayMatch \o weekend.weekdayMatches

previousMatches_earlier(data, currentWeekend) ==
  LET T(w) == w.id # currentWeekend.id
      cur == CHOOSE i \in DOMAIN data.weekends : data.weekends[i].id = currentWeekend.id
  IN FlatMap(getWeekendMatches, Filter(SubSeq(data.weekends, 1, cur - 1), T))

previousMatches_all(data, currentWeekend) ==
  FlatMap(getWeekendMatches, data.weekends)

\* weekends.filter(w => w.id !== currentWeekend.id).flatMap(getWeekendMatches)
previousMatches(data, currentWeekend) ==
  LET T(w) == w.id # currentWeekend.id
  IN FlatMap(getWeekendMatches, Filter(data.weekends, T))

\* the forEach that replays the previous matches onto the base balance
RECURSIVE PrevBalanceLoop(_, _, _)
PrevBalanceLoop(prevBalance, player, matches) ==
  IF matches = <<>> THEN prevBalance
  ELSE LET match == Head(matches)
           payment == getPlayerPayment(match, player.id)
           next == IF payment # <<>>
                     THEN prevBalance + (payment[1].amountDue - payment[1].amountPaid)
                   ELSE IF Includes(match.playerIds, player.id)
                     THEN prevBalance
                          + Div(match.groundCost + match.cafeteriaCost, Len(match.playerIds))
                   ELSE prevBalance
       IN PrevBalanceLoop(next, player, Tail(matches))

AmountPaidOf(p) == p.amountPaid
AmountDueOf(p) == p.amountDue

NoRow(player) ==
  [player |-> player, prevBalance |-> 0, saturdayPayment |-> <<>>, sundayPayment |-> <<>>,
   weekdayPayments |-> <<>>, amountPaid |-> 0, totalDue |-> 0, currentBalance |-> 0,
   status |-> "pending"]

(***************************************************************************)
(* ConsolidatedDashboard.calculatePlayerPaymentRow                         *)
(***************************************************************************)
CD_status_owesNothingPending(currentBalance, amountPaid) ==
  IF currentBalance < 0 THEN "paid"
  ELSE IF amountPaid > 0 THEN "partial"
  ELSE "pending"

CD_status(currentBalance, amountPaid) ==
  IF currentBalance <= 0 THEN "paid"
  ELSE IF amountPaid > 0 THEN "partial"
  ELSE "pending"

CD_currentPayments(currentWeekend, playerId) ==
  LET saturdayPayment == IF currentWeekend.saturdayMatch # <<>>
                         THEN getPlayerPayment(currentWeekend.saturdayMatch[1], playerId)
                         ELSE <<>>
      sundayPayment == IF currentWeekend.sundayMatch # <<>>
                       THEN getPlayerPayment(currentWeekend.sundayMatch[1], playerId)
                       ELSE <<>>
  IN [saturdayPayment |-> saturdayPayment, sundayPayment |-> sundayPayment]

CD_calculatePlayerPaymentRow(data, player) ==
  LET cw == getCurrentWeekend(data) IN
  IF cw = <<>> THEN NoRow(player)
  ELSE
    LET currentWeekend == cw[1]
        prevBalance == PrevBalanceLoop(player.balance, player,
                                       previousMatches(data, currentWeekend))
        cur == CD_currentPayments(currentWeekend, player.id)
        allCurrentPayments == cur.saturdayPayment \o cur.sundayPayment
        amountPaid == SumSeq(Map(AmountPaidOf, allCurrentPayments))
        totalDue == SumSeq(Map(AmountDueOf, allCurrentPayments))
        currentBalance == prevBalance + (totalDue - amountPaid)
    IN [player |-> player, prevBalance |-> prevBalance,
        saturdayPayment |-> cur.saturdayPayment, sundayPayment |-> cur.sundayPayment,
        weekdayPayments |-> <<>>,
        amountPaid |-> amountPaid, totalDue |-> totalDue,
        currentBalance |-> currentBalance,
        status |-> CD_status(currentBalance, amountPaid)]

(***************************************************************************)
(* PaymentTable.calculatePlayerPaymentRow                                  *)
(***************************************************************************)
PT_status_somePaid(allCurrentPayments) ==
  IF \E i \in DOMAIN allCurrentPayments : allCurrentPayments[i].status = "paid" THEN "paid"
  ELSE IF \E i \in DOMAIN allCurrentPayments : allCurrentPayments[i].status = "partial"
    THEN "partial"
  ELSE "pending"

PT_status(allCurrentPayments) ==
  IF Len(allCurrentPayments) > 0
  THEN IF \A i \in DOMAIN allCurrentPayments : allCurrentPayments[i].status = "paid"
         THEN "paid"
       ELSE IF \E i \in DOMAIN allCurrentPayments :
                 allCurrentPayments[i].status \in {"paid", "partial"}
         THEN "partial"
       ELSE "pending"
  ELSE "pending"

PT_weekdayPayments(currentWeekend, playerId) ==
  LET G(match) == getPlayerPayment(match, playerId)
  IN FlatMap(G, currentWeekend.weekdayMatches)

PT_calculatePlayerPaymentRow(data, player) ==
  LET cw == getCurrentWeekend(data) IN
  IF cw = <<>> THEN NoRow(player)
  ELSE
    LET currentWeekend == cw[1]
        prevBalance == PrevBalanceLoop(player.balance, player,
                                       previousMatches(data, currentWeekend))
        cur == CD_currentPayments(currentWeekend, player.id)
        weekdayPayments == PT_weekdayPayments(currentWeekend, player.id)
        allCurrentPayments == cur.saturdayPayment \o cur.sundayPayment \o weekdayPayments
        amountPaid == SumSeq(Map(AmountPaidOf, allCurrentPayments))
        totalDue == SumSeq(Map(AmountDueOf, allCurrentPayments))
        currentBalance == prevBalance + (totalDue - amountPaid)
    IN [player |-> player, prevBalance |-> prevBalance,
        saturdayPayment |-> cur.saturdayPayment, sundayPayment |-> cur.sundayPayment,
        weekdayPayments |-> weekdayPayments,
        amountPaid |-> amountPaid, totalDue |-> totalDue,
        currentBalance |-> currentBalance,
        status |-> PT_status(allCurrentPayments)]

(***************************************************************************)
(* WhatsAppImageGenerator.getPlayersWithPendingPayments: previous balance  *)
(***************************************************************************)
RECURSIVE WA_prevBalanceLoop(_, _, _)
WA_prevBalanceLoop(prevBalance, player, matches) ==
  IF matches = <<>> THEN prevBalance
  ELSE LET match == Head(matches)
           payment == getPlayerPayment(match, player.id)
           next == IF payment # <<>>
                     THEN prevBalance + (payment[1].amountPaid - payment[1].amountDue)
                   ELSE IF Includes(match.playerIds, player.id)
                     THEN prevBalance
                          + Div(match.groundCost + match.cafeteriaCost, Len(match.playerIds))
                   ELSE prevBalance
       IN WA_prevBalanceLoop(next, player, Tail(matches))

WA_prevBalance(data, player) ==
  LET cw == getCurrentWeekend(data) IN
  IF cw = <<>> THEN 0
  ELSE WA_prevBalanceLoop(player.balance, player, previousMatches(data, cw[1]))

(***************************************************************************)
(* Identifiers.  uuidv4 and crypto.randomUUID return an identifier that no *)
(* live object carries: the smallest number not in use stands for it.      *)
(***************************************************************************)
RECURSIVE FreshIds(_, _)
FreshIds(used, n) ==
  IF n = 0 THEN <<>>
  ELSE LET id == CHOOSE i \in 1..(Cardinality(used) + 1) : i \notin used
       IN <<id>> \o FreshIds(used \cup {id}, n - 1)

AllMatches(data) == FlatMap(getWeekendMatches, data.weekends)

PaymentsOf(match) == match.payments

UsedPaymentIds(data) == {p.id : p \in Range(FlatMap(PaymentsOf, AllMatches(data)))}
UsedMatchIds(data) == {m.id : m \in Range(AllMatches(data))}
UsedWeekendIds(data) == {w.id : w \in Range(data.weekends)}
UsedPlayerIds(data) ==
  {p.id : p \in Range(data.players)}
    \cup UNION {Range(m.playerIds) : m \in Range(AllMatches(data))}

(***************************************************************************)
(* utils/storage.ts                                                        *)
(***************************************************************************)
getSamplePlayers == [i \in 1..NumSamplePlayers |-> [id |-> i, balance |-> 0]]

getCurrentWeekendInitial ==
  [id |-> 1, saturdayMatch |-> <<>>, sundayMatch |-> <<>>, weekdayMatches |-> <<>>]

getInitialData ==
  LET currentWeekend == getCurrentWeekendInitial
  IN [players |-> getSamplePlayers,
      weekends |-> <<currentWeekend>>,
      currentWeekendId |-> currentWeekend.id]

getNextWeekend_sameId(currentWeekend, id) ==
  [id |-> currentWeekend.id, saturdayMatch |-> <<>>, sundayMatch |-> <<>>,
   weekdayMatches |-> <<>>]

getNextWeekend(currentWeekend, id) ==
  [id |-> id, saturdayMatch |-> <<>>, sundayMatch |-> <<>>, weekdayMatches |-> <<>>]

(***************************************************************************)
(* What the user can enter.                                                *)
(***************************************************************************)
PlayerIdsOf(data) == {p.id : p \in Range(data.players)}

\* the ticked players, in the order they were ticked
Selections(data) ==
  LET S == PlayerIdsOf(data) \cap (1..MaxSelect)
  IN {s \in UNION {[1..n -> S] : n \in 1..Cardinality(S)} :
        \A i, j \in DOMAIN s : i # j => s[i] # s[j]}

MatchTypes == {"saturday", "sunday"}

NoOp == [op |-> "init", playerId |-> 0, path |-> "none", follows |-> "none"]
NoProbe == [fn |-> "none"]
Op(name, playerId, path) ==
  [op |-> name, playerId |-> playerId, path |-> path, follows |-> "none"]

\* weekends.map(w => w.id === currentWeekend.id ? updatedWeekend : w)
replaceWeekend(data, currentWeekend, updatedWeekend) ==
  LET F(w) == IF w.id = currentWeekend.id THEN updatedWeekend ELSE w
  IN Map(F, data.weekends)

slotOf(weekend, type) ==
  IF type = "saturday" THEN weekend.saturdayMatch ELSE weekend.sundayMatch

setSlot(weekend, type, m) ==
  IF type = "saturday" THEN [weekend EXCEPT !.saturdayMatch = m]
  ELSE [weekend EXCEPT !.sundayMatch = m]

(***************************************************************************)
(* ConsolidatedDashboard handlers, as functions from AppData to AppData.   *)
(***************************************************************************)
CD_handleNextWeekend_replace(data) ==
  LET cw == getCurrentWeekend(data) IN
  IF cw = <<>> THEN data
  ELSE LET nextWeekend == getNextWeekend(cw[1], FreshIds(UsedWeekendIds(data), 1)[1])
       IN [data EXCEPT !.weekends = replaceWeekend(data, cw[1], nextWeekend),
                       !.currentWeekendId = nextWeekend.id]

CD_handleNextWeekend(data) ==
  LET cw == getCurrentWeekend(data) IN
  IF cw = <<>> THEN data
  ELSE LET nextWeekend == getNextWeekend(cw[1], FreshIds(UsedWeekendIds(data), 1)[1])
       IN [data EXCEPT !.weekends = Append(data.weekends, nextWeekend),
                       !.currentWeekendId = nextWeekend.id]

CD_handleDeleteMatch(data, type) ==
  LET cw == getCurrentWeekend(data) IN
  IF cw = <<>> THEN data
  ELSE LET updatedWeekend == setSlot(cw[1], type, <<>>)
       IN [data EXCEPT !.weekends = replaceWeekend(data, cw[1], updatedWeekend)]

CD_handleCreateMatch_noPlayers(data, type, groundCost, cafeteriaCost, playerIds) ==
  LET cw == getCurrentWeekend(data) IN
  IF cw = <<>> THEN data
  ELSE
    LET currentWeekend == cw[1]
        existingMatch == slotOf(currentWeekend, type)
        costPerPlayer == Div(groundCost + cafeteriaCost, Len(playerIds))
        ids == FreshIds(UsedPaymentIds(data), Len(playerIds))
        match ==
          IF existingMatch # <<>>
          THEN [existingMatch[1] EXCEPT
                  !.groundCost = groundCost,
                  !.cafeteriaCost = cafeteriaCost,
                  !.playerIds = playerIds,
                  !.payments =
                     [i \in DOMAIN playerIds |->
                        LET existingPayment == getPlayerPayment(existingMatch[1], playerIds[i])
                        IN IF existingPayment # <<>>
                           THEN [existingPayment[1] EXCEPT !.amountDue = costPerPlayer]
                           ELSE createPayment(ids[i], playerIds[i], costPerPlayer)]]
          ELSE [id |-> FreshIds(UsedMatchIds(data), 1)[1],
                type |-> IF type = "saturday" THEN "Saturday" ELSE "Sunday",
                groundCost |-> groundCost,
                cafeteriaCost |-> cafeteriaCost,
                playerIds |-> playerIds,
                payments |-> [i \in DOMAIN playerIds |->
                                createPayment(ids[i], playerIds[i], costPerPlayer)]]
        updatedWeekend == setSlot(currentWeekend, type, <<match>>)
    IN [data EXCEPT !.weekends = replaceWeekend(data, currentWeekend, updatedWeekend)]

CD_handleCreateMatch_keepPayments(data, type, groundCost, cafeteriaCost, playerIds) ==
  LET cw == getCurrentWeekend(data) IN
  IF cw = <<>> \/ Len(playerIds) = 0 THEN data
  ELSE
    LET currentWeekend == cw[1]
        existingMatch == slotOf(currentWeekend, type)
        costPerPlayer == Div(groundCost + cafeteriaCost, Len(playerIds))
        ids == FreshIds(UsedPaymentIds(data), Len(playerIds))
        match ==
          IF existingMatch # <<>>
          THEN [existingMatch[1] EXCEPT !.groundCost = groundCost,
                                        !.cafeteriaCost = cafeteriaCost,
                                        !.playerIds = playerIds]
          ELSE [id |-> FreshIds(UsedMatchIds(data), 1)[1],
                type |-> IF type = "saturday" THEN "Saturday" ELSE "Sunday",
                groundCost |-> groundCost,
                cafeteriaCost |-> cafeteriaCost,
                playerIds |-> playerIds,
                payments |-> [i \in DOMAIN playerIds |->
                                createPayment(ids[i], playerIds[i], costPerPlayer)]]
        updatedWeekend == setSlot(currentWeekend, type, <<match>>)
    IN [data EXCEPT !.weekends = replaceWeekend(data, currentWeekend, updatedWeekend)]

CD_handleCreateMatch(data, type, groundCost, cafeteriaCost, playerIds) ==
  LET cw == getCurrentWeekend(data) IN
  IF cw = <<>> \/ Len(playerIds) = 0 THEN data
  ELSE
    LET currentWeekend == cw[1]
        existingMatch == slotOf(currentWeekend, type)
        costPerPlayer == Div(groundCost + cafeteriaCost, Len(playerIds))
        ids == FreshIds(UsedPaymentIds(data), Len(playerIds))
        match ==
          IF existingMatch # <<>>
          THEN [existingMatch[1] EXCEPT
                  !.groundCost = groundCost,
                  !.cafeteriaCost = cafeteriaCost,
                  !.playerIds = playerIds,
                  !.payments =
                     [i \in DOMAIN playerIds |->
                        LET existingPayment == getPlayerPayment(existingMatch[1], playerIds[i])
                        IN IF existingPayment # <<>>
                           THEN [existingPayment[1] EXCEPT !.amountDue = costPerPlayer]
                           ELSE createPayment(ids[i], playerIds[i], costPerPlayer)]]
          ELSE [id |-> FreshIds(UsedMatchIds(data), 1)[1],
                type |-> IF type = "saturday" THEN "Saturday" ELSE "Sunday",
                groundCost |-> groundCost,
                cafeteriaCost |-> cafeteriaCost,
                playerIds |-> playerIds,
                payments |-> [i \in DOMAIN playerIds |->
                                createPayment(ids[i], playerIds[i], costPerPlayer)]]
        updatedWeekend == setSlot(currentWeekend, type, <<match>>)
    IN [data EXCEPT !.weekends = replaceWeekend(data, currentWeekend, updatedWeekend)]

\* match.payments.map(p => p.playerId === playerId ? updatedPayment : p)
replacePayments(match, playerId, updatedPayment) ==
  LET F(p) == IF p.playerId = playerId THEN updatedPayment ELSE p
  IN [match EXCEPT !.payments = Map(F, match.payments)]

\* the two "Update Saturday/Sunday match payment" blocks of one forEach round
updateWeekendPayment(updatedWeekend, payment, updatedPayment, playerId) ==
  LET afterSat ==
        IF updatedWeekend.saturdayMatch # <<>> /\ payment.playerId = playerId
        THEN LET satPayment == getPlayerPayment(updatedWeekend.saturdayMatch[1], playerId)
             IN IF satPayment # <<>> /\ satPayment[1].id = payment.id
                THEN [updatedWeekend EXCEPT !.saturdayMatch =
                        <<replacePayments(updatedWeekend.saturdayMatch[1], playerId,
                                          updatedPayment)>>]
                ELSE updatedWeekend
        ELSE updatedWeekend
  IN IF afterSat.sundayMatch # <<>> /\ payment.playerId = playerId
     THEN LET sunPayment == getPlayerPayment(afterSat.sundayMatch[1], playerId)
          IN IF sunPayment # <<>> /\ sunPayment[1].id = payment.id
             THEN [afterSat EXCEPT !.sundayMatch =
                     <<replacePayments(afterSat.sundayMatch[1], playerId, updatedPayment)>>]
             ELSE afterSat
     ELSE afterSat

unpaidPayment_clearsDue(payment) ==
  [payment EXCEPT !.amountPaid = 0, !.amountDue = 0, !.status = "pending"]

unpaidPayment(payment) == [payment EXCEPT !.amountPaid = 0, !.status = "pending"]

fullyPaidPayment_keepsStatus(payment) ==
  [payment EXCEPT !.amountPaid = payment.amountDue]

fullyPaidPayment(payment) ==
  [payment EXCEPT !.amountPaid = payment.amountDue, !.status = "paid"]

RECURSIVE toggleLoop(_, _, _, _)
toggleLoop(updatedWeekend, allCurrentPayments, isCurrentlyPaid, playerId) ==
  IF allCurrentPayments = <<>> THEN updatedWeekend
  ELSE LET payment == Head(allCurrentPayments)
           updatedPayment == IF isCurrentlyPaid THEN unpaidPayment(payment)
                             ELSE fullyPaidPayment(payment)
       IN toggleLoop(updateWeekendPayment(updatedWeekend, payment, updatedPayment, playerId),
                     Tail(allCurrentPayments), isCurrentlyPaid, playerId)

setBalance(players, playerId, balance) ==
  LET F(p) == IF p.id = playerId THEN [p EXCEPT !.balance = balance] ELSE p
  IN Map(F, players)

findPlayer(data, playerId) ==
  LET T(p) == p.id = playerId IN Find(data.players, T)

toggledBalance_previous(isCurrentlyPaid, playerRow) ==
  IF isCurrentlyPaid THEN playerRow.prevBalance ELSE 0

\* balance: playerRow.currentBalance on the unpaid path, balance: 0 on the paid path
toggledBalance(isCurrentlyPaid, playerRow) ==
  IF isCurrentlyPaid THEN playerRow.currentBalance ELSE 0

CD_handleOverallPaymentToggle(data, playerId) ==
  LET cw == getCurrentWeekend(data) IN
  IF cw = <<>> THEN data
  ELSE
    LET currentWeekend == cw[1]
        player == findPlayer(data, playerId)[1]
        playerRow == CD_calculatePlayerPaymentRow(data, player)
        isCurrentlyPaid == playerRow.status = "paid"
        cur == CD_currentPayments(currentWeekend, playerId)
        allCurrentPayments == cur.saturdayPayment \o cur.sundayPayment
        updatedWeekend == toggleLoop(currentWeekend, allCurrentPayments,
                                     isCurrentlyPaid, playerId)
        updatedPlayers ==
          setBalance(data.players, playerId, toggledBalance(isCurrentlyPaid, playerRow))
    IN [data EXCEPT !.weekends = replaceWeekend(data, currentWeekend, updatedWeekend),
                    !.players = updatedPlayers]

\* field 'balance': parseFloat(editValue) || 0
CD_handlePlayerSave(data, playerId, editValue) ==
  [data EXCEPT !.players = setBalance(data.players, playerId, editValue)]

CD_handleAddNewPlayer(data) ==
  LET player == [id |-> FreshIds(UsedPlayerIds(data), 1)[1], balance |-> 0]
  IN [data EXCEPT !.players = Append(data.players, player)]

removePlayerFromMatch_resplit(match, playerId) ==
  LET keepId(id) == id # playerId
      keepPayment(p) == p.playerId # playerId
      playerIds == Filter(match.playerIds, keepId)
      resplit(p) == [p EXCEPT !.amountDue =
                       IF Len(playerIds) = 0 THEN 0
                       ELSE (match.groundCost + match.cafeteriaCost) \div Len(playerIds)]
  IN [match EXCEPT !.playerIds = playerIds,
                   !.payments = Map(resplit, Filter(match.payments, keepPayment))]

removePlayerFromMatch(match, playerId) ==
  LET keepId(id) == id # playerId
      keepPayment(p) == p.playerId # playerId
  IN [match EXCEPT !.playerIds = Filter(match.playerIds, keepId),
                   !.payments = Filter(match.payments, keepPayment)]

CD_handleDeletePlayer_currentOnly(data, playerId) ==
  LET keep(p) == p.id # playerId
      R(match) == removePlayerFromMatch(match, playerId)
      W(weekend) == IF weekend.id # data.currentWeekendId THEN weekend
                    ELSE [weekend EXCEPT !.saturdayMatch = Map(R, weekend.saturdayMatch),
                                         !.sundayMatch = Map(R, weekend.sundayMatch),
                                         !.weekdayMatches = Map(R, weekend.weekdayMatches)]
  IN [data EXCEPT !.players = Filter(data.players, keep),
                  !.weekends = Map(W, data.weekends)]

CD_handleDeletePlayer(data, playerId) ==
  LET keep(p) == p.id # playerId
      R(match) == removePlayerFromMatch(match, playerId)
      W(weekend) == [weekend EXCEPT !.saturdayMatch = Map(R, weekend.saturdayMatch),
                                    !.sundayMatch = Map(R, weekend.sundayMatch),
                                    !.weekdayMatches = Map(R, weekend.weekdayMatches)]
  IN [data EXCEPT !.players = Filter(data.players, keep),
                  !.weekends = Map(W, data.weekends)]

\* the status expression of handleTotalDueSave
totalDueStatus(newAmountPaid, amountDue) ==
  IF newAmountPaid >= amountDue THEN "paid"
  ELSE IF newAmountPaid > 0 THEN "partial"
  ELSE "pending"

\* one round of the forEach of handleTotalDueSave
updateWeekendTotalDue(updatedWeekend, payment, newAmountPaid, playerId) ==
  LET afterSat ==
        IF updatedWeekend.saturdayMatch # <<>> /\ payment.playerId = playerId
        THEN LET satPayment == getPlayerPayment(updatedWeekend.saturdayMatch[1], playerId)
             IN IF satPayment # <<>> /\ satPayment[1].id = payment.id
                THEN LET updatedPayment ==
                           [satPayment[1] EXCEPT
                              !.amountPaid = newAmountPaid,
                              !.status = totalDueStatus(newAmountPaid, satPayment[1].amountDue)]
                     IN [updatedWeekend EXCEPT !.saturdayMatch =
                           <<replacePayments(updatedWeekend.saturdayMatch[1], playerId,
                                             updatedPayment)>>]
                ELSE updatedWeekend
        ELSE updatedWeekend
  IN IF afterSat.sundayMatch # <<>> /\ payment.playerId = playerId
     THEN LET sunPayment == getPlayerPayment(afterSat.sundayMatch[1], playerId)
          IN IF sunPayment # <<>> /\ sunPayment[1].id = payment.id
             THEN LET updatedPayment ==
                        [sunPayment[1] EXCEPT
                           !.amountPaid = newAmountPaid,
                           !.status = totalDueStatus(newAmountPaid, sunPayment[1].amountDue)]
                  IN [afterSat EXCEPT !.sundayMatch =
                        <<replacePayments(afterSat.sundayMatch[1], playerId, updatedPayment)>>]
             ELSE afterSat
     ELSE afterSat

\* Math.max(0, Math.min(payment.amountDue, targetTotalPaid * proportion))
newAmountPaidOf(payment, targetTotalPaid, totalOwed) ==
  Max(0, Min(payment.amountDue, Div(targetTotalPaid * payment.amountDue, totalOwed)))

RECURSIVE totalDueLoop(_, _, _, _, _)
totalDueLoop(updatedWeekend, allCurrentPayments, targetTotalPaid, totalOwed, playerId) ==
  IF allCurrentPayments = <<>> THEN updatedWeekend
  ELSE LET payment == Head(allCurrentPayments)
       IN totalDueLoop(
            updateWeekendTotalDue(updatedWeekend, payment,
                                  newAmountPaidOf(payment, targetTotalPaid, totalOwed),
                                  playerId),
            Tail(allCurrentPayments), targetTotalPaid, totalOwed, playerId)

CD_handleTotalDueSave(data, playerId, newTotalDue) ==
  LET cw == getCurrentWeekend(data) IN
  IF cw = <<>> THEN data
  ELSE
    LET currentWeekend == cw[1]
        playerRow == CD_calculatePlayerPaymentRow(data, findPlayer(data, playerId)[1])
        targetTotalPaid == playerRow.totalDue - newTotalDue
        allCurrentPayments == playerRow.saturdayPayment \o playerRow.sundayPayment
        totalOwed == SumSeq(Map(AmountDueOf, allCurrentPayments))
        updatedWeekend ==
          IF totalOwed > 0
          THEN totalDueLoop(currentWeekend, allCurrentPayments, targetTotalPaid,
                            totalOwed, playerId)
          ELSE currentWeekend
    IN [data EXCEPT !.weekends = replaceWeekend(data, currentWeekend, updatedWeekend)]

\* the entered totals for which every share targetTotalPaid * proportion is whole
TotalDueInputs(data, playerId) ==
  LET row == CD_calculatePlayerPaymentRow(data, findPlayer(data, playerId)[1])
      pays == row.saturdayPayment \o row.sundayPayment
      owed == SumSeq(Map(AmountDueOf, pays))
  IN {v \in {0, 1, CostUnit} :
        owed > 0 => \A i \in DOMAIN pays : ((row.totalDue - v) * pays[i].amountDue) % owed = 0}

\* let updatedWeekend = { ...currentWeekend } copies the fields of the weekend,
\* not the matches they refer to: what a handler assigns to
\* updatedWeekend.saturdayMatch.payments and updatedWeekend.sundayMatch.payments
\* is assigned in the match that the snapshot it was given refers to.  The
\* value of that snapshot once the handler has run:
givenAfter(data, updatedData) == [data EXCEPT !.weekends = updatedData.weekends]

CD_handleOverallPaymentToggle_given(data, playerId) ==
  givenAfter(data, CD_handleOverallPaymentToggle(data, playerId))

CD_handleTotalDueSave_given(data, playerId, newTotalDue) ==
  givenAfter(data, CD_handleTotalDueSave(data, playerId, newTotalDue))

(***************************************************************************)
(* MatchCard and WeekendDashboard.                                         *)
(***************************************************************************)
\* match.payments.map(p => p.id === payment.id ? updatedPayment : p)
MC_replacePayment(match, payment, updatedPayment) ==
  LET F(p) == IF p.id = payment.id THEN updatedPayment ELSE p
  IN [match EXCEPT !.payments = Map(F, match.payments)]

MC_handlePaymentToggle(match, payment) ==
  LET updatedPayment == IF payment.status = "paid" THEN markAsUnpaid(payment)
                        ELSE markAsPaid(payment)
  IN MC_replacePayment(match, payment, updatedPayment)

MC_handlePartialPayment(match, payment, numAmount) ==
  MC_replacePayment(match, payment, setPartialPayment(payment, numAmount))

MC_handlePlayerToggle(editMatch, playerId) ==
  LET keep(id) == id # playerId
      isSelected == Includes(editMatch.playerIds, playerId)
  IN [editMatch EXCEPT !.playerIds = IF isSelected THEN Filter(editMatch.playerIds, keep)
                                     ELSE Append(editMatch.playerIds, playerId)]

\* setEditMatch({...editMatch, groundCost: ...}), setEditMatch({...editMatch, cafeteriaCost: ...})
MC_setCosts(editMatch, groundCost, cafeteriaCost) ==
  [editMatch EXCEPT !.groundCost = groundCost, !.cafeteriaCost = cafeteriaCost]

\* the match handed to onMatchUpdate, if the guard lets the save through;
\* ids are what generateUUID() returns for the payments created
MC_handleSave(editMatch, ids) ==
  IF Len(editMatch.playerIds) > 0 /\ (editMatch.groundCost > 0 \/ editMatch.cafeteriaCost > 0)
  THEN LET costPerPlayer == calculateMatchCostPerPlayer(editMatch)
           updatedPayments ==
             [i \in DOMAIN editMatch.playerIds |->
                LET existingPayment == getPlayerPayment(editMatch, editMatch.playerIds[i])
                IN IF existingPayment # <<>>
                   THEN [existingPayment[1] EXCEPT !.amountDue = costPerPlayer]
                   ELSE createPayment(ids[i], editMatch.playerIds[i], costPerPlayer)]
       IN <<[editMatch EXCEPT !.payments = updatedPayments]>>
  ELSE <<>>

\* the weekend handed to onWeekendUpdate; id is what generateUUID() returns
WD_addWeekdayMatch(weekend, id) ==
  LET newMatch == [id |-> id, type |-> "Weekday", groundCost |-> 0, cafeteriaCost |-> 0,
                   playerIds |-> <<>>, payments |-> <<>>]
  IN [weekend EXCEPT !.weekdayMatches = Append(weekend.weekdayMatches, newMatch)]

\* weekdayMatches once handleMatchUpdate has written the match at
\* existingIndex or pushed it
WD_weekdayMatchesAfter(weekdayMatches, match) ==
  LET T(m) == m.id = match.id
      F(m) == IF m.id = match.id THEN match ELSE m
      existing == {i \in DOMAIN weekdayMatches : T(weekdayMatches[i])}
      existingIndex == IF existing = {} THEN 0
                       ELSE CHOOSE i \in existing : \A j \in existing : i <= j
  IN IF existingIndex > 0 THEN [weekdayMatches EXCEPT ![existingIndex] = match]
     ELSE Append(weekdayMatches, match)

\* the weekend handed to onWeekendUpdate
WD_handleMatchUpdate(weekend, match) ==
  IF match.type = "Saturday" THEN [weekend EXCEPT !.saturdayMatch = <<match>>]
  ELSE IF match.type = "Sunday" THEN [weekend EXCEPT !.sundayMatch = <<match>>]
  ELSE [weekend EXCEPT !.weekdayMatches = WD_weekdayMatchesAfter(weekend.weekdayMatches, match)]

\* the weekend prop once handleMatchUpdate has run: updatedWeekend = { ...weekend }
\* has its own saturdayMatch and sundayMatch fields but the weekdayMatches array
\* of the prop, which the index assignment and the push write into
WD_handleMatchUpdate_given(weekend, match) ==
  IF match.type \in {"Saturday", "Sunday"} THEN weekend
  ELSE [weekend EXCEPT !.weekdayMatches = WD_weekdayMatchesAfter(weekend.weekdayMatches, match)]

(***************************************************************************)
(* PaymentTable handlers.                                                  *)
(***************************************************************************)
PT_updateMatchPayment(match, playerId, paidAmount) ==
  LET existingPayment == getPlayerPayment(match, playerId) IN
  IF existingPayment = <<>> THEN match
  ELSE replacePayments(match, playerId, setPartialPayment(existingPayment[1], paidAmount))

PT_handleCellSave_signed(data, playerId, field, editValue) ==
  LET cw == getCurrentWeekend(data)
      player == findPlayer(data, playerId)
  IN
  IF cw = <<>> \/ player = <<>> THEN data
  ELSE IF field = "prevBalance" /\ editValue = player[1].balance THEN data
  ELSE IF field = "prevBalance"
    THEN [data EXCEPT !.players = setBalance(data.players, playerId, editValue)]
  ELSE data

PT_handleCellSave(data, playerId, field, editValue) ==
  LET cw == getCurrentWeekend(data)
      player == findPlayer(data, playerId)
      numValue == Abs(editValue)
  IN
  IF cw = <<>> \/ player = <<>> THEN data
  ELSE IF field = "prevBalance" /\ numValue = Abs(player[1].balance) THEN data
  ELSE IF field = "saturday" /\ cw[1].saturdayMatch # <<>>
    THEN [data EXCEPT !.weekends = replaceWeekend(data, cw[1],
            [cw[1] EXCEPT !.saturdayMatch =
               <<PT_updateMatchPayment(cw[1].saturdayMatch[1], playerId, numValue)>>])]
  ELSE IF field = "sunday" /\ cw[1].sundayMatch # <<>>
    THEN [data EXCEPT !.weekends = replaceWeekend(data, cw[1],
            [cw[1] EXCEPT !.sundayMatch =
               <<PT_updateMatchPayment(cw[1].sundayMatch[1], playerId, numValue)>>])]
  ELSE IF field = "prevBalance"
    THEN [data EXCEPT !.players = setBalance(data.players, playerId, numValue)]
  ELSE data

PT_togglePaymentStatus(data, playerId, field) ==
  LET cw == getCurrentWeekend(data) IN
  IF cw = <<>> THEN data
  ELSE
    LET match == slotOf(cw[1], field) IN
    IF match = <<>> THEN data
    ELSE
      LET payment == getPlayerPayment(match[1], playerId) IN
      IF payment = <<>> THEN data
      ELSE
        LET updatedPayment == IF payment[1].status = "paid" THEN markAsUnpaid(payment[1])
                              ELSE markAsPaid(payment[1])
            updatedMatch == replacePayments(match[1], playerId, updatedPayment)
            updatedWeekend == setSlot(cw[1], field, <<updatedMatch>>)
        IN [data EXCEPT !.weekends = replaceWeekend(data, cw[1], updatedWeekend)]

(***************************************************************************)
(* HybridStorageAdapter.  The data handed to saveData are numbered in the  *)
(* order of the calls, 1, 2, ...; 0 is what getInitialData returns.        *)
(* localStorage is the item under STORAGE_KEY and firebaseStorage the      *)
(* remote document, each absent (<<>>) or holding data.  calls are the     *)
(* adapter's calls that wait for the remote store; it answers them in any  *)
(* order, and each answer resolves or rejects.  saved records the latest   *)
(* saveData: its data, whether the adapter was offline, and whether a sync *)
(* started by an 'online' event after it has run to its end.               *)
(***************************************************************************)
\* calls of saveData, and 'online' and 'offline' events, in one run
MaxSaves == 3
MaxEvents == 3

\* the state after new HybridStorageAdapter(): isOnlineMode = navigator.onLine
HybridStorageAdapter(onLine) ==
  /\ isOnlineMode = onLine
  /\ localStorage = <<>>
  /\ firebaseStorage = <<>>
  /\ calls = <<>>
  /\ saved = [data |-> 0, offline |-> FALSE, synced |-> FALSE]
  /\ events = 0

\* storage.ts loadData: the stored item, or getInitialData() without one
LS_loadData == IF localStorage # <<>> THEN localStorage[1] ELSE 0

RemoveAt(s, i) == SubSeq(s, 1, i - 1) \o SubSeq(s, i + 1, Len(s))

\* saveData(data): localStorage at once, the remote store if online
HS_saveData ==
  /\ saved.data < MaxSaves
  /\ LET data == saved.data + 1
     IN /\ localStorage' = <<data>>
        /\ calls' = IF isOnlineMode
                    THEN Append(calls, [fn |-> "saveData", pc |-> "saveData", data |-> data,
                                        after |-> data])
                    ELSE calls
        /\ saved' = [data |-> data, offline |-> ~isOnlineMode, synced |-> FALSE]
  /\ UNCHANGED <<appVars, firebaseStorage, isOnlineMode, events>>

\* await this.firebaseStorage.saveData(data) of saveData resolves
HS_saveDataResolves ==
  \E i \in DOMAIN calls :
    /\ calls[i].fn = "saveData"
    /\ firebaseStorage' = <<calls[i].data>>
    /\ calls' = RemoveAt(calls, i)
    /\ UNCHANGED <<appVars, localStorage, isOnlineMode, saved, events>>

\* it rejects: console.warn
HS_saveDataRejects ==
  \E i \in DOMAIN calls :
    /\ calls[i].fn = "saveData"
    /\ calls' = RemoveAt(calls, i)
    /\ UNCHANGED <<appVars, localStorage, firebaseStorage, isOnlineMode, saved, events>>

\* the 'online' listener: isOnlineMode = true, then syncData() up to its
\* first await, with localData read
HS_online ==
  /\ ~isOnlineMode
  /\ events < MaxEvents
  /\ events' = events + 1
  /\ isOnlineMode' = TRUE
  /\ calls' = Append(calls, [fn |-> "syncData", pc |-> "loadData", data |-> LS_loadData,
                             after |-> saved.data])
  /\ UNCHANGED <<appVars, localStorage, firebaseStorage, saved>>

\* the 'offline' listener
HS_offline ==
  /\ isOnlineMode
  /\ events < MaxEvents
  /\ events' = events + 1
  /\ isOnlineMode' = FALSE
  /\ UNCHANGED <<appVars, localStorage, firebaseStorage, calls, saved>>

\* syncData has run to its end without an error, for the save it came after
syncedAfter(call) ==
  IF call.after = saved.data /\ saved.offline THEN [saved EXCEPT !.synced = TRUE] ELSE saved

\* await this.firebaseStorage.loadData() of syncData resolves with firebaseData
HS_syncDataLoaded ==
  \E i \in DOMAIN calls :
    /\ calls[i].fn = "syncData"
    /\ calls[i].pc = "loadData"
    /\ LET localData == calls[i].data
           firebaseData == firebaseStorage
       IN IF firebaseData # <<>>
          THEN /\ localStorage' = <<firebaseData[1]>>
               /\ calls' = RemoveAt(calls, i)
               /\ saved' = syncedAfter(calls[i])
          ELSE /\ calls' = [calls EXCEPT ![i].pc = "saveData"]
               /\ UNCHANGED <<localStorage, saved>>
    /\ UNCHANGED <<appVars, firebaseStorage, isOnlineMode, events>>

\* await this.firebaseStorage.saveData(localData) of syncData resolves
HS_syncDataSaved ==
  \E i \in DOMAIN calls :
    /\ calls[i].fn = "syncData"
    /\ calls[i].pc = "saveData"
    /\ firebaseStorage' = <<calls[i].data>>
    /\ calls' = RemoveAt(calls, i)
    /\ saved' = syncedAfter(calls[i])
    /\ UNCHANGED <<appVars, localStorage, isOnlineMode, events>>

\* either await of syncData rejects: console.error
HS_syncDataRejects ==
  \E i \in DOMAIN calls :
    /\ calls[i].fn = "syncData"
    /\ calls' = RemoveAt(calls, i)
    /\ UNCHANGED <<appVars, localStorage, firebaseStorage, isOnlineMode, saved, events>>

InitSync ==
  /\ appData = getInitialData
  /\ last = NoOp
  /\ steps = 0
  /\ probe = NoProbe
  /\ \E onLine \in BOOLEAN : HybridStorageAdapter(onLine)

NextSync ==
  \/ HS_saveData
  \/ HS_saveDataResolves
  \/ HS_saveDataRejects
  \/ HS_online
  \/ HS_offline
  \/ HS_syncDataLoaded
  \/ HS_syncDataSaved
  \/ HS_syncDataRejects

SpecSync == InitSync /\ [][NextSync]_vars

(***************************************************************************)
(* The state machine: App holds appData; every handler replaces it.        *)
(***************************************************************************)
Init ==
  /\ appData = getInitialData
  /\ last = NoOp
  /\ steps = 0
  /\ probe = NoProbe
  /\ HybridStorageAdapter(TRUE)

\* one user operation: the handler ran and App re-rendered with the new data
Step(data, op) ==
  /\ steps < MaxSteps
  /\ steps' = steps + 1
  /\ appData' = data
  /\ last' = op
  /\ UNCHANGED <<probe, adapterVars>>

\* the players whose row buttons and cells are exercised
Actors(data) == PlayerIdsOf(data) \cap (1..MaxSelect)

toggledPath(data, playerId) ==
  IF CD_calculatePlayerPaymentRow(data, findPlayer(data, playerId)[1]).status = "paid"
  THEN "unpaid" ELSE "paid"

handleNextWeekend ==
  /\ getCurrentWeekend(appData) # <<>>
  /\ Len(appData.weekends) < MaxWeekends
  /\ Step(CD_handleNextWeekend(appData), Op("handleNextWeekend", 0, "none"))

handleDeleteMatch ==
  \E type \in MatchTypes :
    /\ getCurrentWeekend(appData) # <<>>
    /\ Step(CD_handleDeleteMatch(appData, type), Op("handleDeleteMatch", 0, type))

handleCreateMatch ==
  \E type \in MatchTypes, cost \in CostInputs, playerIds \in Selections(appData) :
    /\ getCurrentWeekend(appData) # <<>>
    /\ Step(CD_handleCreateMatch(appData, type, cost[1], cost[2], playerIds),
            Op("handleCreateMatch", 0, type))

handleOverallPaymentToggle ==
  \E playerId \in Actors(appData) :
    /\ getCurrentWeekend(appData) # <<>>
    /\ Step(CD_handleOverallPaymentToggle(appData, playerId),
            [Op("handleOverallPaymentToggle", playerId, toggledPath(appData, playerId))
               EXCEPT !.follows = IF last.op = "handleOverallPaymentToggle"
                                     /\ last.playerId = playerId
                                  THEN last.path ELSE "none"])

handleAddNewPlayer ==
  /\ Len(appData.players) < NumSamplePlayers
  /\ Step(CD_handleAddNewPlayer(appData), Op("handleAddNewPlayer", 0, "none"))

handlePlayerSave ==
  \E playerId \in Actors(appData), editValue \in BalanceInputs :
    Step(CD_handlePlayerSave(appData, playerId, editValue),
         Op("handlePlayerSave", playerId, "balance"))

handleDeletePlayer ==
  \E playerId \in Actors(appData) :
    Step(CD_handleDeletePlayer(appData, playerId), Op("handleDeletePlayer", playerId, "none"))

handleTotalDueSave ==
  \E playerId \in Actors(appData) :
    \E newTotalDue \in TotalDueInputs(appData, playerId) :
      /\ getCurrentWeekend(appData) # <<>>
      /\ Step(CD_handleTotalDueSave(appData, playerId, newTotalDue),
              Op("handleTotalDueSave", playerId, "none"))

handleCellSave ==
  \E playerId \in Actors(appData), field \in {"saturday", "sunday", "prevBalance"},
     editValue \in PaidInputs :
    /\ getCurrentWeekend(appData) # <<>>
    /\ Step(PT_handleCellSave(appData, playerId, field, editValue),
            Op("handleCellSave", playerId, field))

togglePaymentStatus ==
  \E playerId \in Actors(appData), field \in MatchTypes :
    /\ getCurrentWeekend(appData) # <<>>
    /\ Step(PT_togglePaymentStatus(appData, playerId, field),
            Op("togglePaymentStatus", playerId, field))

Next ==
  \/ handleNextWeekend
  \/ handleDeleteMatch
  \/ handleCreateMatch
  \/ handleOverallPaymentToggle
  \/ handleAddNewPlayer
  \/ handlePlayerSave
  \/ handleDeletePlayer
  \/ handleTotalDueSave
  \/ handleCellSave
  \/ togglePaymentStatus

Spec == Init /\ [][Next]_vars

(***************************************************************************)
(* The same dashboards over data that loadData read back from storage: a   *)
(* previous weekend and a current one, with a match recorded before        *)
(* payments existed, a payment settled in part or overpaid, and weekday    *)
(* matches.                                                                *)
(***************************************************************************)
\* operations after loading
LoadedSteps == 2

storedMatch(id, type, playerIds, paymentIds, paidByFirst) ==
  [id |-> id, type |-> type, groundCost |-> CostUnit, cafeteriaCost |-> 0,
   playerIds |-> playerIds,
   payments |-> [i \in DOMAIN paymentIds |->
                   LET payment == createPayment(paymentIds[i], playerIds[i],
                                                CostUnit \div Len(playerIds))
                   IN IF i = 1 THEN setPartialPayment(payment, paidByFirst) ELSE payment]]

LoadedData ==
  { [players |-> [getSamplePlayers EXCEPT ![1].balance = balance],
     weekends |-> << [id |-> 1, saturdayMatch |-> <<saturday>>, sundayMatch |-> <<>>,
                      weekdayMatches |-> previousWeekday],
                     [id |-> 2, saturdayMatch |-> <<>>, sundayMatch |-> <<sunday>>,
                      weekdayMatches |-> currentWeekday] >>,
     currentWeekendId |-> 2] :
      balance \in {0, 3},
      saturday \in {storedMatch(1, "Saturday", <<1, 2>>, <<>>, 0)}
                     \cup {storedMatch(1, "Saturday", <<1, 2>>, <<1, 2>>, paid) :
                             paid \in {0, 1, CostUnit}},
      previousWeekday \in {<<>>, <<storedMatch(2, "Weekday", <<1>>, <<3>>, 1)>>},
      sunday \in {storedMatch(3, "Sunday", <<1, 2>>, <<4, 5>>, paid) :
                     paid \in {0, CostUnit \div 2}},
      currentWeekday \in {<<>>, <<storedMatch(4, "Weekday", <<1, 2>>, <<6, 7>>, 1)>>} }

InitLoaded ==
  /\ appData \in LoadedData
  /\ last = Op("loadData", 0, "none")
  /\ steps = MaxSteps - LoadedSteps
  /\ probe = NoProbe
  /\ HybridStorageAdapter(TRUE)

SpecLoaded == InitLoaded /\ [][Next]_vars

(***************************************************************************)
(* The calculations on their own: a match is split and its payments are    *)
(* recorded, with costs that need not divide evenly.                       *)
(***************************************************************************)
\* participants of a probed match
MaxShare == 7

ProbeGround == {0, 1, 10, 100, 300}
ProbeCafeteria == {0, 7, 150}
ProbePaid == {0 - 75, 0, 75, 150, 200}

\* sum + p of reduce((sum, p) => sum + p, 0), p not integral
RECURSIVE addShares(_, _, _)
addShares(sum, share, n) ==
  IF n = 0 THEN sum
  ELSE LET next == FAdd(sum, share)
       IN IF next.e = next.e THEN addShares(next, share, n - 1) ELSE next

\* the per-player cost added up over the participants
shareSum(match) ==
  LET n == Len(match.playerIds)
      share == calculateMatchCostPerPlayer(match)
  IN IF (match.groundCost + match.cafeteriaCost) % n = 0 THEN n * share
     ELSE addShares(share, share, n - 1)

probeMatch(groundCost, cafeteriaCost, n) ==
  CD_handleCreateMatch(getInitialData, "saturday", groundCost, cafeteriaCost,
                       [i \in 1..n |-> i]).weekends[1].saturdayMatch[1]

InitCalc ==
  /\ appData = getInitialData
  /\ last = NoOp
  /\ steps = 0
  /\ probe = NoProbe
  /\ HybridStorageAdapter(TRUE)

ProbeSplit ==
  \E groundCost \in ProbeGround, cafeteriaCost \in ProbeCafeteria, n \in 1..MaxShare :
    LET match == [id |-> 1, type |-> "Saturday", groundCost |-> groundCost,
                  cafeteriaCost |-> cafeteriaCost, playerIds |-> [i \in 1..n |-> i],
                  payments |-> <<>>]
    IN /\ probe.fn = "none"
       /\ probe' = [fn |-> "split", match |-> match,
                    cost |-> calculateMatchCostPerPlayer(match),
                    sum |-> shareSum(match)]
       /\ UNCHANGED <<appData, last, steps, adapterVars>>

ProbeCreate ==
  \E groundCost \in ProbeGround, cafeteriaCost \in ProbeCafeteria, n \in 1..3 :
    /\ probe.fn = "none"
    /\ (groundCost + cafeteriaCost) % n = 0
    /\ probe' = [fn |-> "payments", match |-> probeMatch(groundCost, cafeteriaCost, n)]
    /\ UNCHANGED <<appData, last, steps, adapterVars>>

ProbePay ==
  \E amount \in ProbePaid :
    /\ probe.fn = "payments"
    /\ \E i \in DOMAIN probe.match.payments :
         probe' = [probe EXCEPT !.match.payments[i] = setPartialPayment(@, amount)]
    /\ UNCHANGED <<appData, last, steps, adapterVars>>

\* costs and numbers of players of the earlier matches that are replayed
ReplayCosts == {1, 6, 100}
ReplaySizes == {1, 3, 7}
ReplayBalances == {0, 3}

\* the amount due is a whole number
wholeShare(match) == (match.groundCost + match.cafeteriaCost) % Len(match.playerIds) = 0

\* prevBalance += (payment.amountDue - payment.amountPaid) in binary64, for
\* payments with nothing paid: amountDue - 0 is amountDue
RECURSIVE PrevBalanceLoopBinary64(_, _, _)
PrevBalanceLoopBinary64(prevBalance, player, matches) ==
  IF matches = <<>> THEN prevBalance
  ELSE LET match == Head(matches)
           payment == getPlayerPayment(match, player.id)
           amountDue == IF wholeShare(match) THEN FromInt(payment[1].amountDue)
                        ELSE payment[1].amountDue
           next == IF payment # <<>> THEN FAdd(prevBalance, amountDue) ELSE prevBalance
       IN IF next.e = next.e THEN PrevBalanceLoopBinary64(next, player, Tail(matches))
          ELSE next

\* three earlier matches of player 1, two weekday matches of one weekend and
\* the Saturday match of another, and an empty current weekend
replayData(balance, matches) ==
  [players |-> [getSamplePlayers EXCEPT ![1].balance = balance],
   weekends |-> << [id |-> 1, saturdayMatch |-> <<>>, sundayMatch |-> <<>>,
                    weekdayMatches |-> <<matches[1], matches[2]>>],
                   [id |-> 2, saturdayMatch |-> <<matches[3]>>, sundayMatch |-> <<>>,
                    weekdayMatches |-> <<>>],
                   [id |-> 3, saturdayMatch |-> <<>>, sundayMatch |-> <<>>,
                    weekdayMatches |-> <<>>] >>,
   currentWeekendId |-> 3]

ProbeReplay ==
  \E balance \in ReplayBalances, costs \in [1..3 -> ReplayCosts], sizes \in [1..3 -> ReplaySizes] :
    /\ probe.fn = "none"
    /\ probe' = [fn |-> "replay",
                 data |-> replayData(balance,
                            [k \in 1..3 |-> [probeMatch(costs[k], 0, sizes[k]) EXCEPT !.id = k]])]
    /\ UNCHANGED <<appData, last, steps, adapterVars>>

(***************************************************************************)
(* DataManagement.handleImportPlayers.  A parsed file is an object with a  *)
(* players array, an array, or anything else; an entry of the array has an *)
(* id, a firstName and a mobile, each possibly missing or empty (0, "").   *)
(* Of an imported player the model keeps the id and the balance.           *)
(***************************************************************************)
\* entries in an imported file
MaxImport == 2

ImportEntries ==
  [id : {0, NumSamplePlayers, NumSamplePlayers + 1}, firstName : {"", "A"}, mobile : {"", "9"}]

ImportFiles ==
  {[format |-> "invalid", players |-> <<>>]}
    \cup [format : {"object", "array"},
          players : UNION {[1..n -> ImportEntries] : n \in 0..MaxImport}]

\* the data handed to onDataImport, if any
DM_handleImportPlayers(data, importedPlayerData) ==
  IF importedPlayerData.format = "invalid" THEN <<>>
  ELSE
    LET playersToImport == importedPlayerData.players
        valid(player) == player.id # 0 /\ player.firstName # "" /\ player.mobile # ""
        validPlayers == Filter(playersToImport, valid)
        existingPlayerIds == {data.players[i].id : i \in DOMAIN data.players}
        isNew(player) == player.id \notin existingPlayerIds
        asPlayer(player) == [id |-> player.id, balance |-> 0]
        newPlayers == Map(asPlayer, Filter(validPlayers, isNew))
    IN IF Len(validPlayers) = 0 THEN <<>>
       ELSE <<[data EXCEPT !.players = data.players \o newPlayers]>>

ProbeImport ==
  \E importedPlayerData \in ImportFiles :
    /\ probe.fn = "none"
    /\ probe' = [fn |-> "import", file |-> importedPlayerData,
                 update |-> DM_handleImportPlayers(appData, importedPlayerData)]
    /\ UNCHANGED <<appData, last, steps, adapterVars>>

(***************************************************************************)
(* Dates.  A 'yyyy-MM-dd' string is <<year, month, day>>; a Date is its    *)
(* time value in minutes, counted from the start of EpochYear in UTC; the  *)
(* local fields of a Date are those of the time value moved by the         *)
(* browser's UTC offset.                                                   *)
(***************************************************************************)
EpochYear == 2024
MinutesPerDay == 24 * 60

IsLeapYear(y) == (y % 4 = 0 /\ y % 100 # 0) \/ y % 400 = 0

DaysInMonth(y, m) ==
  IF m = 2 THEN (IF IsLeapYear(y) THEN 29 ELSE 28)
  ELSE IF m \in {4, 6, 9, 11} THEN 30 ELSE 31

RECURSIVE DaysBeforeYear(_)
DaysBeforeYear(y) ==
  IF y <= EpochYear THEN 0
  ELSE DaysBeforeYear(y - 1) + (IF IsLeapYear(y - 1) THEN 366 ELSE 365)

RECURSIVE DaysBeforeMonth(_, _)
DaysBeforeMonth(y, m) ==
  IF m = 1 THEN 0 ELSE DaysBeforeMonth(y, m - 1) + DaysInMonth(y, m - 1)

\* the day number of a calendar date
DayNumber(date) == DaysBeforeYear(date[1]) + DaysBeforeMonth(date[1], date[2]) + date[3] - 1

\* the calendar date of a day number
CalendarDate(n) ==
  LET y == CHOOSE y \in EpochYear..(EpochYear + 3) :
             DaysBeforeYear(y) <= n /\ n < DaysBeforeYear(y + 1)
      m == CHOOSE m \in 1..12 :
             /\ DaysBeforeYear(y) + DaysBeforeMonth(y, m) <= n
             /\ n < DaysBeforeYear(y) + DaysBeforeMonth(y, m) + DaysInMonth(y, m)
  IN <<y, m, n - DaysBeforeYear(y) - DaysBeforeMonth(y, m) + 1>>

\* new Date('yyyy-MM-dd'): the date-only form is midnight UTC
newDate(dateString) == DayNumber(dateString) * MinutesPerDay

\* date-fns addDays: setDate(getDate() + amount) on the local fields, which
\* keeps the local time of day
addDays(date, amount) == date + amount * MinutesPerDay

\* date-fns format(date, 'yyyy-MM-dd'): the local calendar date
format(date, offset) == CalendarDate((date + offset) \div MinutesPerDay)

\* startDate of the weekend getNextWeekend returns
nextStartDate(startDate, offset) ==
  LET currentSaturday == newDate(startDate)
      nextSaturday == addDays(currentSaturday, 7)
  IN format(nextSaturday, offset)

ProbeDates ==
  {<<2025, 8, 30>>, <<2024, 2, 24>>, <<2025, 2, 22>>, <<2025, 12, 27>>, <<2024, 12, 28>>}

\* UTC offsets of the browser, in minutes
ProbeOffsets == {0 - 480, 0 - 300, 0, 60, 330, 840}

ProbeNextWeekend ==
  \E startDate \in ProbeDates, offset \in ProbeOffsets :
    /\ probe.fn = "none"
    /\ probe' = [fn |-> "getNextWeekend", startDate |-> startDate, offset |-> offset,
                 next |-> nextStartDate(startDate, offset)]
    /\ UNCHANGED <<appData, last, steps, adapterVars>>

NextCalc ==
  \/ ProbeSplit
  \/ ProbeCreate
  \/ ProbePay
  \/ ProbeNextWeekend
  \/ ProbeReplay
  \/ ProbeImport

SpecCalc == InitCalc /\ [][NextCalc]_vars

(***************************************************************************)
(* Payment status and the even split                                       *)
(***************************************************************************)
exampleMatch(match) ==
  /\ match.groundCost = 300
  /\ match.cafeteriaCost = 150
  /\ Len(match.playerIds) = 3

\* C4: updatePaymentStatus gives pending exactly when amountPaid is 0, paid
\* exactly when amountPaid is not 0 and at least amountDue, partial otherwise;
\* a match of 300 + 150 among three players makes three payments of 150, and
\* paying 150, 75 and 0 leaves them paid, partial and pending, 450 due and 225
\* paid in all.
C4_StatusFromAmounts ==
  probe.fn = "payments" =>
    LET payments == probe.match.payments
    IN /\ \A i \in DOMAIN payments :
            LET q == updatePaymentStatus(payments[i])
            IN /\ q = payments[i]
               /\ q.status = "pending" <=> q.amountPaid = 0
               /\ q.status = "paid" <=> (q.amountPaid # 0 /\ q.amountPaid >= q.amountDue)
               /\ q.status = "partial" <=> (q.amountPaid # 0 /\ q.amountPaid < q.amountDue)
       /\ exampleMatch(probe.match) =>
            /\ Len(payments) = 3
            /\ \A i \in DOMAIN payments : payments[i].amountDue = 150
            /\ SumSeq(Map(AmountDueOf, payments)) = 450
            /\ Map(AmountPaidOf, payments) = <<150, 75, 0>> =>
                 /\ [i \in 1..3 |-> payments[i].status] = <<"paid", "partial", "pending">>
                 /\ SumSeq(Map(AmountPaidOf, payments)) = 225

C4_Witness ==
  /\ probe.fn = "payments"
  /\ exampleMatch(probe.match)
  /\ Map(AmountPaidOf, probe.match.payments) = <<150, 75, 0>>

\* |value(x) * n - total| <= n * ulp(x) / 2: x is a binary64 nearest total / n
nearestQuotient(x, total, n) ==
  LET k == MantissaBits + 1 - Len(x.m)
      a == BigMulSmall(BigShl(x.m, k), n)
      b == BigShl(BigFromInt(total), k - x.e)
  IN /\ Len(x.m) <= MantissaBits
     /\ x.e < 0
     /\ BigLeq(a, BigAdd(b, BigFromInt(n)))
     /\ BigLeq(b, BigAdd(a, BigFromInt(n)))

\* |value(x) - total| <= total * n * 2^-52
withinTolerance(x, total, n) ==
  LET k == Max(MantissaBits - 1, 0 - x.e)
      a == BigShl(x.m, x.e + k)
      b == BigShl(BigFromInt(total), k)
      t == BigShl(BigFromInt(total * n), k - (MantissaBits - 1))
  IN /\ BigLeq(a, BigAdd(b, t))
     /\ BigLeq(b, BigAdd(a, t))

\* C5 (amended): with N >= 1 participants calculateMatchCostPerPlayer returns
\* the number (G + C) / N, all costs counted; the shares add up to G + C
\* exactly when N divides G + C, and otherwise to within N * (G + C) * 2^-52
\* of it.
C5_SplitWithinTolerance ==
  probe.fn = "split" =>
    LET total == probe.match.groundCost + probe.match.cafeteriaCost
        n == Len(probe.match.playerIds)
    IN IF total % n = 0
       THEN /\ probe.cost * n = total
            /\ probe.sum = total
       ELSE /\ nearestQuotient(probe.cost, total, n)
            /\ withinTolerance(probe.sum, total, n)

\* a split whose shares do not add up to the total
C5_Witness ==
  /\ probe.fn = "split"
  /\ (probe.match.groundCost + probe.match.cafeteriaCost) % Len(probe.match.playerIds) # 0
  /\ probe.sum # FromInt(probe.match.groundCost + probe.match.cafeteriaCost)
  /\ probe.match.cafeteriaCost > 0

\* C5 as stated: the shares of the N participants add up to exactly G + C.
C5_SharesSumExactly ==
  probe.fn = "split" =>
    LET total == probe.match.groundCost + probe.match.cafeteriaCost
    IN IF total % Len(probe.match.playerIds) = 0
       THEN probe.sum = total
       ELSE probe.sum = FromInt(total)

(***************************************************************************)
(* Balances                                                                *)
(***************************************************************************)
otherWeekendMatches(data) ==
  LET T(w) == w.id # data.currentWeekendId
  IN FlatMap(getWeekendMatches, Filter(data.weekends, T))

hasPayment(match, playerId) ==
  \E i \in DOMAIN match.payments : match.payments[i].playerId = playerId

owedFromMatch(match, playerId) ==
  IF hasPayment(match, playerId)
  THEN LET payment == getPlayerPayment(match, playerId)[1]
       IN payment.amountDue - payment.amountPaid
  ELSE IF playerId \in Range(match.playerIds)
  THEN (match.groundCost + match.cafeteriaCost) \div Len(match.playerIds)
  ELSE 0

\* C1: with a current weekend, the previous balance of a player's row, in
\* ConsolidatedDashboard and in PaymentTable, is player.balance plus, over
\* every match of every other weekend, amountDue - amountPaid of the player's
\* payment if there is one, else the per-head cost if the player took part,
\* else 0; the current weekend's matches add nothing.
C1_PreviousBalance ==
  getCurrentWeekend(appData) # <<>> =>
    \A i \in DOMAIN appData.players :
      LET player == appData.players[i]
          matches == otherWeekendMatches(appData)
          expected == player.balance
                      + SumSeq([k \in DOMAIN matches |-> owedFromMatch(matches[k], player.id)])
      IN /\ CD_calculatePlayerPaymentRow(appData, player).prevBalance = expected
         /\ PT_calculatePlayerPaymentRow(appData, player).prevBalance = expected

\* a player with an earlier match recorded without payments, an earlier
\* payment not settled, and a payment in the current weekend
C1_Witness ==
  /\ getCurrentWeekend(appData) # <<>>
  /\ \E i \in DOMAIN appData.players :
       LET player == appData.players[i]
           matches == otherWeekendMatches(appData)
       IN /\ \E k \in DOMAIN matches :
               /\ ~hasPayment(matches[k], player.id)
               /\ player.id \in Range(matches[k].playerIds)
          /\ \E k \in DOMAIN matches :
               /\ hasPayment(matches[k], player.id)
               /\ owedFromMatch(matches[k], player.id) # 0
          /\ \E k \in DOMAIN getWeekendMatches(getCurrentWeekend(appData)[1]) :
               owedFromMatch(getWeekendMatches(getCurrentWeekend(appData)[1])[k], player.id) # 0
          /\ last.op # "loadData"
          /\ CD_calculatePlayerPaymentRow(appData, player).prevBalance # player.balance

\* the matches with the player's payment in the k-th one paid in full
settled(matches, k, playerId) ==
  [matches EXCEPT ![k].payments =
     replacePayments(matches[k], playerId,
                     markAsPaid(getPlayerPayment(matches[k], playerId)[1])).payments]

\* C2: positive = owes in every function deriving a balance from payments: in
\* the dashboards' previous balance, in calculatePlayerBalance and in the
\* WhatsApp generator's previous balance, a payment with amountPaid below
\* amountDue raises the result by amountDue - amountPaid and one with
\* amountPaid above amountDue lowers it by amountPaid - amountDue.
C2_PositiveMeansOwes ==
  getCurrentWeekend(appData) # <<>> =>
    \A i \in DOMAIN appData.players :
      LET player == appData.players[i]
          matches == previousMatches(appData, getCurrentWeekend(appData)[1])
      IN \A k \in DOMAIN matches :
           hasPayment(matches[k], player.id) =>
             LET payment == getPlayerPayment(matches[k], player.id)[1]
                 owed == payment.amountDue - payment.amountPaid
                 paidUp == settled(matches, k, player.id)
             IN /\ PrevBalanceLoop(player.balance, player, matches)
                     - PrevBalanceLoop(player.balance, player, paidUp) = owed
                /\ calculatePlayerBalance(player, matches)
                     - calculatePlayerBalance(player, paidUp) = owed
                /\ WA_prevBalanceLoop(player.balance, player, matches)
                     - WA_prevBalanceLoop(player.balance, player, paidUp) = owed

currentPayments(data, playerId) ==
  LET G(match) == getPlayerPayment(match, playerId)
  IN FlatMap(G, getWeekendMatches(getCurrentWeekend(data)[1]))

rowAddsUp(row, payments) ==
  /\ row.amountPaid = SumSeq(Map(AmountPaidOf, payments))
  /\ row.totalDue = SumSeq(Map(AmountDueOf, payments))
  /\ row.currentBalance = row.prevBalance + (row.totalDue - row.amountPaid)

\* C3: for the current weekend a player's totalPaid and totalDue are the sums
\* of amountPaid and amountDue over the player's payments in its Saturday
\* match, its Sunday match and every weekday match, and currentBalance is
\* previousBalance + (totalDue - totalPaid), in both dashboards.
C3_CurrentTotals ==
  getCurrentWeekend(appData) # <<>> =>
    \A i \in DOMAIN appData.players :
      LET player == appData.players[i]
          payments == currentPayments(appData, player.id)
      IN /\ rowAddsUp(CD_calculatePlayerPaymentRow(appData, player), payments)
         /\ rowAddsUp(PT_calculatePlayerPaymentRow(appData, player), payments)

(***************************************************************************)
(* The bulk toggle                                                         *)
(***************************************************************************)
\* the player's payments in the Saturday and Sunday matches of the current weekend
weekendPayments(data, playerId) ==
  LET cw == getCurrentWeekend(data)[1]
      T(p) == p.playerId = playerId
      paymentsIn(m) == IF m = <<>> THEN <<>> ELSE Filter(m[1].payments, T)
  IN paymentsIn(cw.saturdayMatch) \o paymentsIn(cw.sundayMatch)

balanceOf(data, playerId) == findPlayer(data, playerId)[1].balance

toggled(path) == last'.op = "handleOverallPaymentToggle" /\ last'.path = path

\* C6: the bulk toggle on a player whose row is not 'paid' leaves every
\* payment of the player in the current weekend's Saturday and Sunday matches
\* with amountPaid = amountDue and status 'paid', and the player's balance 0.
C6_PaidPath ==
  [][toggled("paid") =>
       LET payments == weekendPayments(appData', last'.playerId)
       IN /\ \A i \in DOMAIN payments :
               /\ payments[i].amountPaid = payments[i].amountDue
               /\ payments[i].status = "paid"
          /\ balanceOf(appData', last'.playerId) = 0]_vars

\* paid path over a Saturday and a Sunday payment, with a balance to clear
C6_Witness ==
  /\ last.op = "handleOverallPaymentToggle"
  /\ last.path = "paid"
  /\ Len(weekendPayments(appData, last.playerId)) = 2
  /\ \A i \in 1..2 : weekendPayments(appData, last.playerId)[i].amountDue > 0

totalDueOf(data, playerId) ==
  SumSeq(Map(AmountDueOf, currentPayments(data, playerId)))

\* C8: from any state, the bulk toggle marking a player paid followed at once
\* by the bulk toggle marking the player unpaid leaves the sum of amountDue
\* over the player's current-weekend payments as it was before the two.
C8_PaidThenUnpaidKeepsTotalDue ==
  getCurrentWeekend(appData) # <<>> =>
    \A playerId \in PlayerIdsOf(appData) :
      LET paid == CD_handleOverallPaymentToggle(appData, playerId)
          unpaid == CD_handleOverallPaymentToggle(paid, playerId)
      IN (toggledPath(appData, playerId) = "paid" /\ toggledPath(paid, playerId) = "unpaid") =>
           /\ totalDueOf(unpaid, playerId) = totalDueOf(appData, playerId)
           /\ CD_calculatePlayerPaymentRow(unpaid, findPlayer(unpaid, playerId)[1]).totalDue
                = CD_calculatePlayerPaymentRow(appData, findPlayer(appData, playerId)[1]).totalDue

\* mark unpaid right after mark paid, on a player with something due
C8_Witness ==
  /\ last.op = "handleOverallPaymentToggle"
  /\ last.path = "unpaid"
  /\ last.follows = "paid"
  /\ totalDueOf(appData, last.playerId) > 0

(***************************************************************************)
(* The current weekend                                                     *)
(***************************************************************************)
\* C9: in every state reached from the initial data by dashboard operations,
\* currentWeekendId is the id of exactly one weekend of the list.
C9_ExactlyOneCurrent ==
  Cardinality({i \in DOMAIN appData.weekends :
                 appData.weekends[i].id = appData.currentWeekendId}) = 1

C9_Witness ==
  /\ Len(appData.weekends) = MaxWeekends
  /\ last.op # "handleNextWeekend"
  /\ appData.currentWeekendId = appData.weekends[Len(appData.weekends)].id

emptyWeekend(weekend) ==
  /\ weekend.saturdayMatch = <<>>
  /\ weekend.sundayMatch = <<>>
  /\ weekend.weekdayMatches = <<>>

\* C10: in every state with a current weekend, whatever the statuses of its
\* payments, advancing takes effect: it appends exactly one weekend, without
\* Saturday, Sunday or weekday match, makes it the current one, and leaves the
\* weekends already there and the players as they were.
C10_AdvanceAppendsOne ==
  getCurrentWeekend(appData) # <<>> =>
    LET next == CD_handleNextWeekend(appData)
        n == Len(appData.weekends)
    IN /\ Len(next.weekends) = n + 1
       /\ SubSeq(next.weekends, 1, n) = appData.weekends
       /\ emptyWeekend(next.weekends[n + 1])
       /\ next.currentWeekendId = next.weekends[n + 1].id
       /\ next.currentWeekendId # appData.currentWeekendId
       /\ next.players = appData.players
       /\ last.op = "handleNextWeekend" =>
            /\ emptyWeekend(appData.weekends[n])
            /\ appData.currentWeekendId = appData.weekends[n].id

\* advanced past a weekend that still has a payment pending
C10_Witness ==
  /\ last.op = "handleNextWeekend"
  /\ \E i \in 1..(Len(appData.weekends) - 1) :
       \E k \in DOMAIN getWeekendMatches(appData.weekends[i]) :
         \E j \in DOMAIN getWeekendMatches(appData.weekends[i])[k].payments :
           getWeekendMatches(appData.weekends[i])[k].payments[j].status = "pending"

(***************************************************************************)
(* Advancing                                                               *)
(***************************************************************************)
\* C11: getNextWeekend returns a weekend whose startDate is exactly 7 calendar
\* days after the startDate of the weekend given, for every valid anchor
\* date; 2025-08-30 gives 2025-09-06.
C11_SevenDaysLater ==
  probe.fn = "getNextWeekend" =>
    /\ DayNumber(probe.next) = DayNumber(probe.startDate) + 7
    /\ probe.startDate = <<2025, 8, 30>> => probe.next = <<2025, 9, 6>>


\* C12: right after handleNextWeekend every player's previous balance, computed
\* for the new current weekend, is the current balance that was computed for
\* the player in the old current weekend right before the advance.
C12_BalanceCarriesForward ==
  [][last'.op = "handleNextWeekend" =>
       \A i \in DOMAIN appData.players :
         CD_calculatePlayerPaymentRow(appData', appData'.players[i]).prevBalance
           = CD_calculatePlayerPaymentRow(appData, appData.players[i]).currentBalance]_vars


(***************************************************************************)
(* Status of a row                                                         *)
(***************************************************************************)
statusesOf(payments) == {payments[i].status : i \in DOMAIN payments}

\* C13: the status of a player's row in PaymentTable is paid if the player has
\* at least one payment in the current weekend and all of them are paid,
\* otherwise partial if one of them is paid or partial, otherwise pending.
C13_AggregateStatus ==
  getCurrentWeekend(appData) # <<>> =>
    \A i \in DOMAIN appData.players :
      LET statuses == statusesOf(currentPayments(appData, appData.players[i].id))
      IN PT_calculatePlayerPaymentRow(appData, appData.players[i]).status
           = IF statuses = {"paid"} THEN "paid"
             ELSE IF statuses \cap {"paid", "partial"} # {} THEN "partial"
             ELSE "pending"

\* a row that is partial because one payment is paid and another is pending
C13_Witness ==
  /\ getCurrentWeekend(appData) # <<>>
  /\ last.op # "loadData"
  /\ \E i \in DOMAIN appData.players :
       /\ statusesOf(currentPayments(appData, appData.players[i].id)) = {"paid", "pending"}
       /\ PT_weekdayPayments(getCurrentWeekend(appData)[1], appData.players[i].id) # <<>>


(***************************************************************************)
(* Snapshots                                                               *)
(***************************************************************************)
\* the matches MatchCard hands to handleMatchUpdate when a payment is toggled
toggledMatches(weekend) ==
  LET matches == getWeekendMatches(weekend)
  IN UNION {{MC_handlePaymentToggle(matches[k], matches[k].payments[j]) :
               j \in DOMAIN matches[k].payments} : k \in DOMAIN matches}

\* C14: the bulk toggle, the total-due edit and handleMatchUpdate leave the
\* AppData or Weekend they were given as it was, the payments of its current
\* matches and its weekdayMatches included; the change is in the new snapshot
\* only.
C14_GivenSnapshotUnmodified ==
  getCurrentWeekend(appData) # <<>> =>
    /\ \A playerId \in PlayerIdsOf(appData) :
         /\ CD_handleOverallPaymentToggle_given(appData, playerId) = appData
         /\ \A newTotalDue \in TotalDueInputs(appData, playerId) :
              CD_handleTotalDueSave_given(appData, playerId, newTotalDue) = appData
    /\ \A match \in toggledMatches(getCurrentWeekend(appData)[1]) :
         WD_handleMatchUpdate_given(getCurrentWeekend(appData)[1], match)
           = getCurrentWeekend(appData)[1]


(***************************************************************************)
(* amountDue                                                               *)
(***************************************************************************)
\* every payment of the data, as <<id, amountDue>>
amountsDue(data) ==
  LET matches == AllMatches(data)
  IN UNION {{<<matches[k].payments[j].id, matches[k].payments[j].amountDue>> :
               j \in DOMAIN matches[k].payments} : k \in DOMAIN matches}

keepsAmountDue(payment) ==
  /\ markAsPaid(payment).amountDue = payment.amountDue
  /\ markAsUnpaid(payment).amountDue = payment.amountDue
  /\ \A amount \in PaidInputs \cup {0} :
       setPartialPayment(payment, amount).amountDue = payment.amountDue

\* C15: only saving a match changes the amountDue of a payment: markAsPaid,
\* markAsUnpaid, setPartialPayment, the bulk toggle, the total-due edit,
\* deleting a player and advancing the weekend leave the amountDue of every
\* payment that is still there as it was.
C15_AmountDueFrame ==
  [][/\ last'.op # "handleCreateMatch" => amountsDue(appData') \subseteq amountsDue(appData)
     /\ \A k \in DOMAIN AllMatches(appData) :
          \A j \in DOMAIN AllMatches(appData)[k].payments :
            keepsAmountDue(AllMatches(appData)[k].payments[j])]_vars

\* a player was deleted from a match of two, and the payment that is left
\* still carries the half it was created with
C15_Witness ==
  /\ last.op = "handleDeletePlayer"
  /\ \E k \in DOMAIN AllMatches(appData) :
       LET match == AllMatches(appData)[k]
       IN /\ Len(match.payments) = 1
          /\ match.payments[1].amountDue > 0
          /\ match.payments[1].amountDue # calculateMatchCostPerPlayer(match)


(***************************************************************************)
(* Payments of a match                                                     *)
(***************************************************************************)
onePaymentEach(match) ==
  /\ \A i \in DOMAIN match.playerIds :
       Cardinality({j \in DOMAIN match.payments :
                      match.payments[j].playerId = match.playerIds[i]}) = 1
  /\ \A j \in DOMAIN match.payments : match.payments[j].playerId \in Range(match.playerIds)

\* what a MatchCard opened on the match can hold when Save is pressed: a
\* player ticked or unticked, the costs typed again
cardEdits(data, match) ==
  {MC_setCosts(MC_handlePlayerToggle(match, playerId), cost[1], cost[2]) :
     playerId \in PlayerIdsOf(data) \cap (1..MaxSelect + 1),
     cost \in {<<0, 0>>, <<CostUnit, 0>>}}

\* C16: in every reachable state every match holds exactly one payment for
\* each player of its playerIds and none for anyone else, after a match was
\* created, after it was edited with players added or removed, in the
\* dashboard or in a MatchCard, and after a player was deleted.
C16_OnePaymentPerParticipant ==
  \A k \in DOMAIN AllMatches(appData) :
    LET match == AllMatches(appData)[k]
    IN /\ onePaymentEach(match)
       /\ \A editMatch \in cardEdits(appData, match) :
            LET update == MC_handleSave(editMatch,
                                       FreshIds(UsedPaymentIds(appData), Len(editMatch.playerIds)))
            IN update # <<>> => onePaymentEach(update[1])

\* one of the players of a match deleted, another then ticked in its card
C16_Witness ==
  /\ last.op = "handleDeletePlayer"
  /\ \E k \in DOMAIN AllMatches(appData) :
       LET match == AllMatches(appData)[k]
       IN /\ Len(match.playerIds) = 1
          /\ \E editMatch \in cardEdits(appData, match) :
               /\ Len(editMatch.playerIds) = 2
               /\ MC_handleSave(editMatch, FreshIds(UsedPaymentIds(appData), 2)) # <<>>


(***************************************************************************)
(* Divisions                                                               *)
(***************************************************************************)
\* the data with a weekday match added to its k-th weekend while that weekend
\* was on the dashboard
withAddedWeekdayMatch(data, k) ==
  [data EXCEPT !.weekends[k] =
     WD_addWeekdayMatch(data.weekends[k], FreshIds(UsedMatchIds(data), 1)[1])]

\* the three replays of the earlier matches
replayedBalances(data, player) ==
  <<CD_calculatePlayerPaymentRow(data, player).prevBalance,
    PT_calculatePlayerPaymentRow(data, player).prevBalance,
    WA_prevBalance(data, player)>>

totalOwedOf(data, playerId) ==
  LET playerRow == CD_calculatePlayerPaymentRow(data, findPlayer(data, playerId)[1])
  IN SumSeq(Map(AmountDueOf, playerRow.saturdayPayment \o playerRow.sundayPayment))

\* C17: no division by zero in any reachable state: the share of a match
\* without players is 0 whatever its costs, a match without players among the
\* earlier ones leaves every replayed balance as it is, handleCreateMatch with
\* no player selected leaves the data as they are, and handleTotalDueSave
\* for a player whose current amounts due add up to 0 leaves the data as
\* they are.
C17_NoDivisionByZero ==
  /\ \A k \in DOMAIN appData.weekends, cost \in CostInputs :
       LET added == WD_addWeekdayMatch(appData.weekends[k], FreshIds(UsedMatchIds(appData), 1)[1])
           match == added.weekdayMatches[Len(added.weekdayMatches)]
       IN calculateMatchCostPerPlayer(MC_setCosts(match, cost[1], cost[2])) = 0
  /\ \A k \in DOMAIN appData.weekends, i \in DOMAIN appData.players :
       replayedBalances(withAddedWeekdayMatch(appData, k), appData.players[i])
         = replayedBalances(appData, appData.players[i])
  /\ \A type \in MatchTypes, cost \in CostInputs :
       CD_handleCreateMatch(appData, type, cost[1], cost[2], <<>>) = appData
  /\ \A playerId \in Actors(appData), newTotalDue \in {0, 1, CostUnit} :
       totalOwedOf(appData, playerId) = 0
         => CD_handleTotalDueSave(appData, playerId, newTotalDue) = appData

\* a total due was saved for a player whose current payments are all for
\* nothing due, and an earlier match of that player carries no payment
C17_Witness ==
  /\ last.op = "handleTotalDueSave"
  /\ LET row == CD_calculatePlayerPaymentRow(appData, findPlayer(appData, last.playerId)[1])
     IN /\ row.saturdayPayment \o row.sundayPayment # <<>>
        /\ totalOwedOf(appData, last.playerId) = 0
  /\ \E k \in DOMAIN previousMatches(appData, getCurrentWeekend(appData)[1]) :
       LET match == previousMatches(appData, getCurrentWeekend(appData)[1])[k]
       IN /\ Includes(match.playerIds, last.playerId)
          /\ getPlayerPayment(match, last.playerId) = <<>>


(***************************************************************************)
(* Status derivation applied again                                         *)
(***************************************************************************)
PaymentStatuses == {"pending", "partial", "paid"}

\* the payment with any amount paid and any status, the derived one or a stale one
withAnyStatus(payment) ==
  {[payment EXCEPT !.amountPaid = amountPaid, !.status = status] :
     amountPaid \in ProbePaid, status \in PaymentStatuses}

\* C18: for every payment p, whatever amount and status it carries,
\* updatePaymentStatus(updatePaymentStatus(p)) = updatePaymentStatus(p), and
\* updatePaymentStatus(p) differs from p in the status field at most: id,
\* playerId, amountPaid and amountDue are those of p.
C18_StatusIdempotent ==
  probe.fn = "payments" =>
    \A i \in DOMAIN probe.match.payments :
      \A p \in withAnyStatus(probe.match.payments[i]) :
        LET q == updatePaymentStatus(p)
        IN /\ updatePaymentStatus(q) = q
           /\ q.amountPaid = p.amountPaid
           /\ q.amountDue = p.amountDue
           /\ [q EXCEPT !.status = p.status] = p

\* payments overpaid, paid in part and not paid, side by side
C18_Witness ==
  /\ probe.fn = "payments"
  /\ \E i, j, k \in DOMAIN probe.match.payments :
       /\ probe.match.payments[i].amountPaid > probe.match.payments[i].amountDue
       /\ probe.match.payments[j].amountPaid \in 1..(probe.match.payments[j].amountDue - 1)
       /\ probe.match.payments[k].amountPaid = 0


(***************************************************************************)
(* The order of the earlier matches                                        *)
(***************************************************************************)
Permuted(s, f) == [i \in DOMAIN s |-> s[f[i]]]

\* the previous balance of the replayed data in binary64
previousBalanceBinary64(data, matches) ==
  PrevBalanceLoopBinary64(FromInt(data.players[1].balance), data.players[1], matches)

wholeAmounts(data) == \A k \in DOMAIN AllMatches(data) : wholeShare(AllMatches(data)[k])

C20_OfflineSaveSynced ==
  saved.synced =>
    /\ firebaseStorage = <<saved.data>>
    /\ localStorage = <<saved.data>>


(***************************************************************************)
(* The row after the paid path                                             *)
(***************************************************************************)
\* C21: right after the paid path of handleOverallPaymentToggle the player's
\* recomputed currentBalance is 0 or negative and the row's status is
\* 'paid', so that the next toggle on the player takes the unpaid path.
C21_PaidPathClearsAllDues ==
  [][toggled("paid") =>
       LET row == CD_calculatePlayerPaymentRow(appData',
                                               findPlayer(appData', last'.playerId)[1])
       IN /\ row.currentBalance <= 0
          /\ row.status = "paid"
          /\ toggledPath(appData', last'.playerId) = "unpaid"]_vars


CD_handleTotalDueEdit(data, playerId) ==
  Max(0, CD_calculatePlayerPaymentRow(data, findPlayer(data, playerId)[1]).currentBalance)

\* the entered totals for which every share targetTotalPaid * proportion is whole
wholeProportions(data, playerId, newTotalDue) ==
  LET row == CD_calculatePlayerPaymentRow(data, findPlayer(data, playerId)[1])
      pays == row.saturdayPayment \o row.sundayPayment
  IN \A i \in DOMAIN pays :
       ((row.totalDue - newTotalDue) * pays[i].amountDue) % totalOwedOf(data, playerId) = 0

\* C23: for a player with a current payment of positive amountDue,
\* handleTotalDueSave with an entered value v >= 0 leaves the recomputed
\* currentBalance of the player's row, which the Total Due cell shows, equal
\* to v; and saving the value handleTotalDueEdit pre-filled leaves the
\* amountPaid of every payment as it was.
C23_TotalDueReached ==
  getCurrentWeekend(appData) # <<>> =>
    \A playerId \in Actors(appData) :
      totalOwedOf(appData, playerId) > 0 =>
        /\ \A v \in {0, 1, CostUnit} :
             wholeProportions(appData, playerId, v) =>
               LET after == CD_handleTotalDueSave(appData, playerId, v)
               IN CD_calculatePlayerPaymentRow(after, findPlayer(after, playerId)[1]).currentBalance
                    = v
        /\ LET v == CD_handleTotalDueEdit(appData, playerId)
           IN wholeProportions(appData, playerId, v) =>
                Map(AmountPaidOf, currentPayments(CD_handleTotalDueSave(appData, playerId, v),
                                                  playerId))
                  = Map(AmountPaidOf, currentPayments(appData, playerId))


(***************************************************************************)
(* Deleting a player                                                       *)
(***************************************************************************)
paymentsOfOthers(match, playerId) ==
  LET T(p) == p.playerId # playerId IN Filter(match.payments, T)

\* C24: after handleDeletePlayer(p) the players list is without p, no match
\* of any weekend, current or past, Saturday, Sunday or weekday, has p among
\* its playerIds or holds a payment of p, and every other player and every
\* payment of another player is as it was.
C24_DeletedEverywhere ==
  [][last'.op = "handleDeletePlayer" =>
       LET p == last'.playerId
           before == AllMatches(appData)
           after == AllMatches(appData')
       IN /\ p \notin PlayerIdsOf(appData')
          /\ PlayerIdsOf(appData') = PlayerIdsOf(appData) \ {p}
          /\ \A q \in PlayerIdsOf(appData') : findPlayer(appData', q) = findPlayer(appData, q)
          /\ Len(after) = Len(before)
          /\ \A k \in DOMAIN after :
               /\ p \notin Range(after[k].playerIds)
               /\ ~hasPayment(after[k], p)
               /\ after[k].payments = paymentsOfOthers(before[k], p)
               /\ Range(after[k].playerIds) = Range(before[k].playerIds) \ {p}]_vars

\* a player deleted who had played in an earlier weekend and in a weekday
\* match of the current one: each of them is left with its other player
C24_Witness ==
  /\ last.op = "handleDeletePlayer"
  /\ Len(appData.players) = NumSamplePlayers - 1
  /\ \E k \in DOMAIN otherWeekendMatches(appData) :
       /\ Len(otherWeekendMatches(appData)[k].playerIds) = 1
       /\ Len(otherWeekendMatches(appData)[k].payments) = 1
  /\ \E k \in DOMAIN getCurrentWeekend(appData)[1].weekdayMatches :
       Len(getCurrentWeekend(appData)[1].weekdayMatches[k].payments) = 1


(***************************************************************************)
(* Importing players                                                       *)
(***************************************************************************)
\* C25: after handleImportPlayers on any parsed file no two players of the
\* resulting list share an id, every player that existed is kept as it was,
\* entries without id, firstName or mobile are not added, and weekends and
\* currentWeekendId are as before; a file without a valid player leaves the
\* application state as it is.
C25_ImportNoDuplicateIds ==
  probe.fn = "import" =>
    LET entries == probe.file.players
        valid == {i \in DOMAIN entries : /\ entries[i].id # 0
                                         /\ entries[i].firstName # ""
                                         /\ entries[i].mobile # ""}
    IN IF probe.update = <<>> THEN valid = {}
       ELSE LET players == probe.update[1].players
            IN /\ valid # {}
               /\ \A i, j \in DOMAIN players : i # j => players[i].id # players[j].id
               /\ SubSeq(players, 1, Len(appData.players)) = appData.players
               /\ \A i \in DOMAIN players :
                    i > Len(appData.players) => players[i].id \in {entries[k].id : k \in valid}
               /\ probe.update[1].weekends = appData.weekends
               /\ probe.update[1].currentWeekendId = appData.currentWeekendId


(***************************************************************************)
(* Stored statuses                                                         *)
(***************************************************************************)
AllPayments(data) == FlatMap(PaymentsOf, AllMatches(data))

\* C26: in every reachable state the status of every stored payment is the
\* one updatePaymentStatus derives from its amountPaid and amountDue, after
\* payment creation, the bulk toggle, the total-due edit, the cell edits and
\* a match edit that changes the per-head cost.
C26_StatusConsistent ==
  \A i \in DOMAIN AllPayments(appData) :
    updatePaymentStatus(AllPayments(appData)[i]) = AllPayments(appData)[i]


(***************************************************************************)
(* Amounts due and the per-head cost                                       *)
(***************************************************************************)
perHeadDue(match) ==
  \A i \in DOMAIN match.payments :
    match.payments[i].amountDue = calculateMatchCostPerPlayer(match)

\* C27 as stated: in every reachable state every payment of a match with at
\* least one participant has the match's current per-head cost as amountDue,
\* so that the amounts due of the match add up to its cost.
C27_AmountDueIsPerHead ==
  \A k \in DOMAIN AllMatches(appData) :
    LET match == AllMatches(appData)[k]
    IN Len(match.playerIds) >= 1 =>
         /\ perHeadDue(match)
         /\ SumSeq(Map(AmountDueOf, match.payments)) = match.groundCost + match.cafeteriaCost

\* the number of participants the amounts due of the match were split among
splitAmong(match) ==
  {n \in Len(match.playerIds)..NumSamplePlayers :
     \A i \in DOMAIN match.payments :
       match.payments[i].amountDue * n = match.groundCost + match.cafeteriaCost}

\* C27, amended: the match that handleCreateMatch saves, new or edited, has
\* the per-head cost as amountDue of every payment, and these add up to the
\* cost when the number of participants divides it; in every state the
\* amounts due of a match are its cost split among the participants of its
\* last save, which a player deleted since is no longer one of.
C27_AmountDueIsPerHeadAtSave ==
  [][/\ last'.op = "handleCreateMatch" =>
          LET match == slotOf(getCurrentWeekend(appData')[1], last'.path)[1]
          IN /\ perHeadDue(match)
             /\ Len(match.playerIds) \in splitAmong(match)
             /\ SumSeq(Map(AmountDueOf, match.payments))
                  = match.groundCost + match.cafeteriaCost
     /\ \A k \in DOMAIN AllMatches(appData') :
          AllMatches(appData')[k].payments # <<>> => splitAmong(AllMatches(appData')[k]) # {}]_vars

\* a match just saved beside one that lost a participant after its save
C27_Witness ==
  /\ last.op = "handleCreateMatch"
  /\ \E k \in DOMAIN AllMatches(appData) :
       LET match == AllMatches(appData)[k]
       IN /\ match.payments # <<>>
          /\ match.groundCost > 0
          /\ Len(match.playerIds) \notin splitAmong(match)


(***************************************************************************)
(* The row after the unpaid path                                           *)
(***************************************************************************)
\* C28: right after the unpaid path of the bulk toggle the player's
\* recomputed currentBalance is the previous balance computed before the
\* toggle plus the player's current totalDue, earlier weekends counted once;
\* on a player without payments in the current weekend it leaves the
\* currentBalance as it was.
C28_UnpaidPathCountsHistoryOnce ==
  [][toggled("unpaid") =>
       LET before == CD_calculatePlayerPaymentRow(appData,
                                                  findPlayer(appData, last'.playerId)[1])
           after == CD_calculatePlayerPaymentRow(appData',
                                                 findPlayer(appData', last'.playerId)[1])
       IN /\ after.currentBalance = before.prevBalance + before.totalDue
          /\ weekendPayments(appData, last'.playerId) = <<>>
               => after.currentBalance = before.currentBalance]_vars


(***************************************************************************)
(* Editing a match in its card                                             *)
(***************************************************************************)
\* the match in the store once a payment of the match shown in a card was
\* toggled, or a partial payment of one rupee was entered for it
cardPayments(match) ==
  {MC_handlePaymentToggle(match, match.payments[j]) : j \in DOMAIN match.payments}
    \cup {MC_handlePartialPayment(match, match.payments[j], 1) : j \in DOMAIN match.payments}

\* the payments of the saved match against those of the stored one
keepsAmountPaid(stored, update) ==
  \A i \in DOMAIN update.playerIds :
    LET before == getPlayerPayment(stored, update.playerIds[i])
        after == getPlayerPayment(update, update.playerIds[i])
    IN /\ after # <<>>
       /\ IF before # <<>> THEN after[1].amountPaid = before[1].amountPaid
          ELSE after[1].amountPaid = 0 /\ after[1].status = "pending"

\* C29: saving an edit of a match in its card keeps, for every player who
\* stays in the match, the amountPaid recorded on the stored payment just
\* before the save, toggles and partial payments made since the card was
\* first shown included, and gives every added player a payment with
\* amountPaid 0 and status pending.
C29_EditKeepsAmountPaid ==
  \A k \in DOMAIN AllMatches(appData) :
    LET match == AllMatches(appData)[k]
    IN \A stored \in cardPayments(match), editMatch \in cardEdits(appData, match) :
         LET update == MC_handleSave(editMatch,
                                    FreshIds(UsedPaymentIds(appData), Len(editMatch.playerIds)))
         IN update # <<>> => keepsAmountPaid(stored, update[1])



(***************************************************************************)
(* Editing the Prev Balance cell of the payment table                      *)
(***************************************************************************)
\* what parseFloat(editValue) || 0 gives for the values typed into the cell
PrevBalanceEntries == {0 - 3, 0, 1, 3}

\* nothing but the balance of the player differs between the two data
onlyBalanceOf(playerId, data, after) ==
  /\ after.weekends = data.weekends
  /\ after.currentWeekendId = data.currentWeekendId
  /\ Len(after.players) = Len(data.players)
  /\ \A i \in DOMAIN data.players :
       IF data.players[i].id = playerId
       THEN after.players[i] = [data.players[i] EXCEPT !.balance = after.players[i].balance]
       ELSE after.players[i] = data.players[i]

====
